---- MODULE Spec2Model ----
(***************************************************************************)
(* Action protocol and session state engine of the Appetize JavaScript SDK *)
(* (core/session.ts, core/api/mapper.ts, core/errors.ts, core/waitFor.ts). *)
(*                                                                         *)
(* Numbers are fixed point: a JavaScript number n is the integer 1000 * n  *)
(* ("milli"), so the position 0.5 is 500 and the pixel 389 is 389000.      *)
(* Durations are integer milliseconds.  NaN is a separate flag.            *)
(***************************************************************************)
EXTENDS Integers, Sequences, FiniteSets, TLC

----------------------------------------------------------------------------
(* Bounds of the model *)

MaxCalls == 2          \* public operations invoked on the session
MaxActions == 2        \* actions in one playActions batch
TickMs == 10000         \* granularity of the passage of time
MaxEvents == 4         \* events the channel delivers to a session
MaxPolls == 4          \* polls of the readiness wait
ValueTickMs == 1000    \* granularity of time in the wait for properties
MaxWaiters == 2        \* callers of waitForAnimations
MaxAnimCalls == 3      \* waitForAnimations calls in all
MaxWaypoints == 2      \* waypoints added to a gesture with to()
MaxMoves == 2          \* moves of a swipe given to the mappers
MaxWaitMs == 40        \* the longest pause at a waypoint, in ms
MaxWindowEvents == 4   \* events the window delivers to the client
MaxSessions == 2       \* Session instances the client creates
MaxStarts == 1         \* calls of startSession
MaxElements == 7       \* matched elements of an ambiguousMatch response

----------------------------------------------------------------------------
(* JavaScript values *)

Num(m) == [t |-> "number", nan |-> FALSE, v |-> m, s |-> <<>>]
NaN == [t |-> "number", nan |-> TRUE, v |-> 0, s |-> <<>>]
Str(chars) == [t |-> "string", nan |-> FALSE, v |-> 0, s |-> chars]
Undefined == [t |-> "undefined", nan |-> FALSE, v |-> 0, s |-> <<>>]

Min(a, b) == IF a < b THEN a ELSE b
Max(a, b) == IF a > b THEN a ELSE b

DigitChars == {"0", "1", "2", "3", "4", "5", "6", "7", "8", "9"}

DigitVal(c) ==
  CASE c = "0" -> 0 [] c = "1" -> 1 [] c = "2" -> 2 [] c = "3" -> 3
    [] c = "4" -> 4 [] c = "5" -> 5 [] c = "6" -> 6 [] c = "7" -> 7
    [] c = "8" -> 8 [] c = "9" -> 9

\* the value of the longest prefix of digits of s starting at index i
RECURSIVE DigitsFrom(_, _, _)
DigitsFrom(s, i, acc) ==
  IF i > Len(s) \/ s[i] \notin DigitChars
    THEN acc
    ELSE DigitsFrom(s, i + 1, 10 * acc + DigitVal(s[i]))

RECURSIVE SkipSpaces(_, _)
SkipSpaces(s, i) ==
  IF i <= Len(s) /\ s[i] = " " THEN SkipSpaces(s, i + 1) ELSE i

\* parseInt(s, 10): leading white space, an optional sign, then the longest
\* run of decimal digits; NaN when there is no digit.  The result is an
\* integer in units (not milli).
parseIntDigits(s, neg, i1) ==
  IF i1 > Len(s) \/ s[i1] \notin DigitChars
    THEN [nan |-> TRUE, v |-> 0]
    ELSE [nan |-> FALSE,
          v |-> IF neg THEN 0 - DigitsFrom(s, i1, 0) ELSE DigitsFrom(s, i1, 0)]

parseIntSign(s, i0) ==
  parseIntDigits(s, i0 <= Len(s) /\ s[i0] = "-",
                 IF i0 <= Len(s) /\ s[i0] \in {"-", "+"} THEN i0 + 1 ELSE i0)

parseInt(s) == parseIntSign(s, SkipSpaces(s, 1))

endsWith(s, c) == Len(s) > 0 /\ s[Len(s)] = c

----------------------------------------------------------------------------
(* core/api/recorder/util.ts *)

Thrown(cls) == [t |-> "throw", nan |-> FALSE, v |-> 0, s |-> <<cls>>]
IsThrown(r) == r.t = "throw"

\* parsePositionValue(value): a string ending in % is parseInt(value) / 100,
\* any other string throws a plain Error, every other value is returned as is
\* n / 100 of an integer n, NaN staying NaN
Hundredth(n) == IF n.nan THEN NaN ELSE Num(10 * n.v)

parsePositionValue(value) ==
  IF value.t = "string"
    THEN IF endsWith(value.s, "%")
           THEN Hundredth(parseInt(value.s))
           ELSE Thrown("Error")
    ELSE value

----------------------------------------------------------------------------
(* core/api/mapper.ts: Validator *)

isValidNumber(value) == value.t = "number" /\ ~value.nan

\* comparisons with NaN are false
JsLess(a, b) == ~a.nan /\ ~b.nan /\ a.v < b.v

\* !(v < 0 || v > 1)
WithinUnit(v) == ~(JsLess(v, Num(0)) \/ JsLess(Num(1000), v))

isPositionWithinBounds(position) ==
  /\ WithinUnit(parsePositionValue(position.x))
  /\ WithinUnit(parsePositionValue(position.y))

isCoordinatesWithinBounds(coordinates, bounds) ==
  /\ ~(JsLess(coordinates.x, Num(0)) \/ JsLess(Num(1000 * bounds.width), coordinates.x))
  /\ ~(JsLess(coordinates.y, Num(0)) \/ JsLess(Num(1000 * bounds.height), coordinates.y))

----------------------------------------------------------------------------
(* core/api/mapper.ts: InternalAPIMapper *)

NoPoint == [present |-> FALSE, x |-> Undefined, y |-> Undefined]
Point(x, y) == [present |-> TRUE, x |-> x, y |-> y]

\* value * (screen.devicePixelRatio || 1); an absent ratio is modelled as 0
dipToPixel(screen, value) ==
  value * (IF screen.devicePixelRatio = 0 THEN 1 ELSE screen.devicePixelRatio)

JsTimes(a, n) == IF a.t = "number" /\ ~a.nan THEN Num(a.v * n) ELSE NaN

\* getCoordinates(position, bounds): the parsed position times the bounds
getCoordinates(position, bounds) ==
  Point(JsTimes(parsePositionValue(position.x), bounds.width),
        JsTimes(parsePositionValue(position.y), bounds.height))

\* variant: positions are scaled by the screen in points on both platforms
BoundsInPoints(platform, screen) ==
  [width |-> screen.width - 1, height |-> screen.height - 1]

\* the bounds a position is scaled by: the inclusive last pixel of each axis,
\* on Android after converting the screen from points to pixels
PositionBounds(platform, screen) ==
  IF platform = "android"
    THEN [width |-> dipToPixel(screen, screen.width) - 1,
          height |-> dipToPixel(screen, screen.height) - 1]
    ELSE [width |-> screen.width - 1, height |-> screen.height - 1]

MapFailed(cls) ==
  [ok |-> FALSE, err |-> cls, type |-> "", element |-> FALSE,
   coordinates |-> NoPoint, localPosition |-> NoPoint]

JsTruthy(value) ==
  \/ value.t = "number" /\ ~value.nan /\ value.v # 0
  \/ value.t = "string" /\ Len(value.s) > 0

\* the position branch of mapAction (mapper.ts 79-114)
MapParsedPosition(platform, screen, position, x, y) ==
  IF IsThrown(x) \/ IsThrown(y) THEN [ok |-> FALSE, err |-> "Error", at |-> NoPoint]
  ELSE IF ~isValidNumber(x) \/ ~isValidNumber(y)
    THEN [ok |-> FALSE, err |-> "OperationalError", at |-> NoPoint]
  ELSE IF ~isPositionWithinBounds(position)
    THEN [ok |-> FALSE, err |-> "Error", at |-> NoPoint]
  ELSE [ok |-> TRUE, err |-> "",
        at |-> getCoordinates(position, PositionBounds(platform, screen))]

MapPosition(platform, screen, position) ==
  MapParsedPosition(platform, screen, position,
                    parsePositionValue(position.x), parsePositionValue(position.y))

\* the coordinates branch of mapAction (mapper.ts 115-148)
MapCoordinates(platform, screen, coordinates) ==
  IF ~isValidNumber(coordinates.x) \/ ~isValidNumber(coordinates.y)
    THEN [ok |-> FALSE, err |-> "OperationalError", at |-> NoPoint]
  ELSE IF ~isCoordinatesWithinBounds(coordinates,
             [width |-> screen.width - 1, height |-> screen.height - 1])
    THEN [ok |-> FALSE, err |-> "OperationalError", at |-> NoPoint]
  ELSE IF platform = "android"
    THEN [ok |-> TRUE, err |-> "",
          at |-> Point(Num(dipToPixel(screen, coordinates.x.v)),
                       Num(dipToPixel(screen, coordinates.y.v)))]
  ELSE [ok |-> TRUE, err |-> "", at |-> coordinates]

\* the localPosition branch of mapAction (mapper.ts 150-185); the range check
\* is commented out in the source
MapParsedLocalPosition(x, y) ==
  IF IsThrown(x) \/ IsThrown(y)
    THEN [ok |-> FALSE, err |-> "Error", at |-> NoPoint]
  ELSE IF ~isValidNumber(x) \/ ~isValidNumber(y)
    THEN [ok |-> FALSE, err |-> "OperationalError", at |-> NoPoint]
  ELSE [ok |-> TRUE, err |-> "", at |-> Point(x, y)]

MapLocalPosition(action) ==
  IF action.localPosition.present
    THEN MapParsedLocalPosition(parsePositionValue(action.localPosition.x),
                                parsePositionValue(action.localPosition.y))
    ELSE IF action.element # "none"
      THEN [ok |-> TRUE, err |-> "", at |-> Point(Num(500), Num(500))]
      ELSE [ok |-> TRUE, err |-> "", at |-> NoPoint]

\* mapAction(action) of the outbound mapper.  Only tap and swipe drop the
\* position and carry the derived coordinates; the other types return the
\* action with its mapped element.
MapTarget(platform, screen, action) ==
  IF action.position.present
    THEN MapPosition(platform, screen, action.position)
  ELSE IF action.coordinates.present
    THEN MapCoordinates(platform, screen, action.coordinates)
  ELSE [ok |-> TRUE, err |-> "", at |-> NoPoint]

MapMapped(action, target, loc) ==
  IF ~target.ok THEN MapFailed(target.err)
  ELSE IF ~loc.ok THEN MapFailed(loc.err)
  ELSE IF JsTruthy(action.duration) /\ ~isValidNumber(action.duration)
    THEN MapFailed("OperationalError")
  ELSE IF action.type \in {"tap", "swipe"}
    THEN [ok |-> TRUE, err |-> "", type |-> action.type,
          element |-> action.element # "none",
          coordinates |-> target.at, localPosition |-> loc.at]
  ELSE [ok |-> TRUE, err |-> "", type |-> action.type,
        element |-> action.element # "none",
        coordinates |-> IF action.position.present THEN NoPoint
                        ELSE action.coordinates,
        localPosition |-> action.localPosition]

mapAction(platform, screen, action) ==
  MapMapped(action, MapTarget(platform, screen, action), MapLocalPosition(action))

\* validateElementAttributes(element) (core/api/util.ts): attributes placed
\* at the root of the selector throw a plain Error
validateElementAttributes(element) == element # "misplaced"

----------------------------------------------------------------------------
(* core/session.ts: Session.playAction and the operations built on it *)

VARIABLES
  record,     \* config.record of the session
  platform,   \* config.platform
  screen,     \* device.screen
  calls,      \* number of public operations invoked so far
  op,         \* the public operation the caller invoked
  pc,         \* where that operation is suspended
  batch,      \* the actions of the operation (one, or a playActions list)
  idx,        \* index in batch of the action being played
  options,    \* options.timeout as passed by the caller
  attempts,   \* the attempts of the current playAction call, oldest first
  listeners,  \* playbackFoundAndSent / playbackError listeners on the session
  timer,      \* the hard timer of the pending attempt
  waited,     \* milliseconds since the pending attempt was sent
  nextId,     \* source of fresh request ids (uuid)
  sent,       \* commands sent on the channel by the current operation
  result,     \* how the operation settled
  lastEvent   \* the playback event most recently emitted by the channel

VARIABLES
  attached,             \* handleSocketEvent is installed on the channel
  disconnected,         \* the session has received the disconnect event
  isEndingManually,     \* end() was called
  countdownWarning,     \* the inactivity countdown warning is showing
  ready,                \* the ready event was received
  adbConnection,        \* #adbConnection is populated
  networkInspectorUrl,  \* #networkInspectorUrl is populated
  proxy,                \* config.proxy
  enableAdb,            \* config.enableAdb
  emitted,              \* events the session has re-emitted to subscribers
  delivered,            \* events the channel has delivered so far
  stale,                \* of these, events delivered after the detachment
  warnings,             \* what the disconnect handler has logged
  lastInactivity,       \* last countdownWarning / timeoutReset on the channel
  wpc,                  \* where the waitUntilReady call of the caller is
  isConnected,          \* local of waitUntilReady
  clock,                \* ms since the current phase of waitUntilReady began
  werr,                 \* the error the last poll threw / the call rejected with
  polls,                \* polls of waitFor so far
  netDone,              \* waitForValue(networkInspectorUrl) has resolved
  adbDone               \* waitForValue(adbConnection) has resolved

VARIABLES
  anims,                \* the waitForAnimations calls, by caller
  animSent              \* pixel change detection toggles sent on the channel

VARIABLES
  gesture,              \* a SwipeGesture: duration, stepDuration and moves
  built                 \* what build() returned or threw

VARIABLES
  mapIn,                \* the action given to the outbound mapper
  mapOut,               \* what the mappers made of it
  routed                \* what the session emitted for the last channel event

VARIABLES
  eventTimers           \* ids of the waitForEvent listeners whose timer is armed

VARIABLES
  cReady,               \* this.ready of the client
  cQueue,               \* this.queue: the position recorded, 0 for undefined
  cSession,             \* this.session: an index into instances, 0 for undefined
  instances,            \* the Session instances the client has created
  start,                \* the startSession call: where it is and what it sent
  startListeners,       \* the events startSession has a listener installed for
  handledBy,            \* the instances that handled the last device event
  tally                 \* events received and emitted by the client, counted

waitVars == <<wpc, isConnected, clock, werr, polls, netDone, adbDone>>

lifeVars == <<attached, disconnected, isEndingManually, countdownWarning, ready, adbConnection,
              networkInspectorUrl, proxy, enableAdb, emitted, delivered, stale,
              warnings, lastInactivity, waitVars>>

animVars == <<anims, animSent>>

sessionVars == <<lifeVars, animVars>>

playVars == <<record, platform, calls, op, pc, batch, idx, options, attempts,
              listeners, timer, waited, nextId, sent, result, lastEvent>>

\* the builder of swipe gestures and the coordinate mappers
gestureVars == <<gesture, built>>

mapperVars == <<mapIn, mapOut, routed>>

\* what neither the gesture builder nor the mappers touch
clientVars == <<cReady, cQueue, cSession, instances, start, startListeners,
                handledBy, tally>>

moreVars == <<eventTimers, clientVars>>

extVars == <<gestureVars, mapperVars, moreVars>>

vars == <<playVars, screen, sessionVars, extVars>>

MAX_APP_RECORDER_TIMEOUT == 10000
DEFAULT_TIMEOUT == 10000
RESPONSE_SLACK == 10000

\* variant: the slack is added to the capped per-attempt timeout
CappedWaitForResponse(timeout) ==
  Min(timeout, MAX_APP_RECORDER_TIMEOUT) + RESPONSE_SLACK

\* MAX_WAIT_FOR_RESPONSE = timeout + 10000
MAX_WAIT_FOR_RESPONSE(timeout) == timeout + RESPONSE_SLACK

\* Math.round(ms / 1000) for ms >= 0: halves round up
MathRoundSeconds(ms) == (ms + 500) \div 1000

\* variant: the cap of 10 s per attempt is forgotten
UncappedPayloadTimeout(timeout) == MathRoundSeconds(timeout)

\* payload.options.timeout
PayloadTimeout(timeout) ==
  MathRoundSeconds(Min(timeout, MAX_APP_RECORDER_TIMEOUT))

\* variant: the retry is given the timeout of the attempt that failed
RemainingUnchanged(timeout) == timeout

\* remainingTimeout = Math.max(0, timeout - MAX_APP_RECORDER_TIMEOUT)
RemainingTimeout(timeout) == Max(0, timeout - MAX_APP_RECORDER_TIMEOUT)

PlaybackEvents == {"playbackFoundAndSent", "playbackError"}
ErrorIds == {"internalError", "notFound", "ambiguousMatch", "invalidArgument",
             "somethingElse"}

\* variant: the notFound case is missing from the switch
ErrorForIdWithoutNotFound(errorId) ==
  CASE errorId = "internalError" -> "ActionInternalError"
    [] errorId = "ambiguousMatch" -> "ActionAmbiguousElementError"
    [] errorId = "invalidArgument" -> "ActionInvalidArgumentError"
    [] OTHER -> "ActionError"

\* the switch of handleError: the error class an errorId rejects with
ErrorForId(errorId) ==
  CASE errorId = "internalError" -> "ActionInternalError"
    [] errorId = "notFound" -> "ActionElementNotFoundError"
    [] errorId = "ambiguousMatch" -> "ActionAmbiguousElementError"
    [] errorId = "invalidArgument" -> "ActionInvalidArgumentError"
    [] OTHER -> "ActionError"

\* variant: every error is retried while budget remains
ShouldRetryAnyError(timeout, err) == RemainingTimeout(timeout) > 0

\* variant: ActionInvalidArgumentError is excluded from the retry as well
ShouldRetryUnlessInvalidArgument(timeout, err) ==
  /\ RemainingTimeout(timeout) > 0
  /\ err # "ActionTimeoutError"
  /\ err # "ActionInternalError"
  /\ err # "ActionInvalidArgumentError"

\* the condition of the retry catch block
ShouldRetry(timeout, err) ==
  /\ RemainingTimeout(timeout) > 0
  /\ err # "ActionTimeoutError"
  /\ err # "ActionInternalError"

NoTimer == [armed |-> FALSE, ms |-> 0]
NoResult == [status |-> "none", err |-> "", feature |-> "", by |-> 0]
NoEvent == [type |-> "", id |-> 0]

Rejected(cls, feature, by) ==
  [status |-> "rejected", err |-> cls, feature |-> feature, by |-> by]

\* variant: the check for a negative timeout is missing
TimeoutNeverNegative(timeout) == FALSE

\* timeout < 0
TimeoutIsNegative(timeout) == timeout.v < 0

\* const { timeout = 10000 } = options
TimeoutOf(opt) == IF opt.t = "undefined" THEN Num(DEFAULT_TIMEOUT) ELSE opt

\* the checks of playAction before anything is sent (session.ts 842-873):
\* the error they throw, or the mapped action
Mapped(m) == [err |-> m.err, feature |-> "", mapped |-> m]

Precheck(action, timeout) ==
  IF ~record
    THEN [err |-> "RecorderRequiredError", feature |-> "playAction()",
          mapped |-> MapFailed("")]
  ELSE IF timeout.nan
    THEN [err |-> "OperationalError", feature |-> "", mapped |-> MapFailed("")]
  ELSE IF TimeoutIsNegative(timeout)
    THEN [err |-> "OperationalError", feature |-> "", mapped |-> MapFailed("")]
  ELSE IF action.element # "none" /\ ~validateElementAttributes(action.element)
    THEN [err |-> "Error", feature |-> "", mapped |-> MapFailed("")]
  ELSE Mapped(mapAction(platform, screen, action))

CurrentAttempt == attempts[Len(attempts)]

\* One invocation of playAction(action, {timeout}) up to its first await:
\* either it throws, and the operation built on it rejects with the same
\* error, or it installs the two listeners, arms the hard timer and sends
\* the playAction command.  log holds the attempts of the enclosing call,
\* lsn the listeners installed and snt the commands sent so far.
PlayChecked(chk, timeout, log, lsn, snt) ==
  IF chk.err # ""
    THEN /\ pc' = "rejected"
         /\ result' = Rejected(chk.err, chk.feature, 0)
         /\ attempts' = log
         /\ listeners' = lsn
         /\ timer' = NoTimer
         /\ waited' = 0
         /\ nextId' = nextId
         /\ sent' = snt
    ELSE /\ pc' = "pending"
         /\ result' = NoResult
         /\ attempts' = Append(log,
              [id |-> nextId, timeout |-> timeout.v,
               seconds |-> PayloadTimeout(timeout.v),
               action |-> chk.mapped, errorId |-> "", outcome |-> "pending"])
         /\ listeners' = lsn \cup {[event |-> e, id |-> nextId] : e \in PlaybackEvents}
         /\ timer' = [armed |-> TRUE, ms |-> MAX_WAIT_FOR_RESPONSE(timeout.v)]
         /\ waited' = 0
         /\ nextId' = nextId + 1
         /\ sent' = Append(snt, [cmd |-> "playAction", id |-> nextId])

PlayAction(action, timeout, log, lsn, snt) ==
  PlayChecked(Precheck(action, timeout), timeout, log, lsn, snt)

----------------------------------------------------------------------------
(* Inputs *)

BaseAction(type) ==
  [type |-> type, element |-> "none", position |-> NoPoint,
   coordinates |-> NoPoint, localPosition |-> NoPoint, duration |-> Undefined]

AxisValues ==
  {Num(0), Num(500), Num(1000), Num(1001), Num(-1), NaN, Undefined,
   Str(<<"5", "0", "%">>), Str(<<"1", "0", "0", "%">>),
   Str(<<"1", "0", "1", "%">>), Str(<<"-", "1", "%">>),
   Str(<<"1", "0", "0", ".", "9", "%">>), Str(<<"a", "b", "c", "%">>),
   Str(<<"5", "0">>), Str(<<"5", "0", "a", "b", "c", "%">>)}

PositionInputs ==
  {Point(a, Num(500)) : a \in AxisValues}
    \cup {Point(Num(0), b) : b \in {Num(1001), Str(<<"1", "0", "0", ".", "9", "%">>)}}

TargetInputs ==
  {[BaseAction("tap") EXCEPT !.position = p] : p \in PositionInputs}
    \cup {[BaseAction("tap") EXCEPT !.element = e] : e \in {"selector", "misplaced"}}
    \cup {[BaseAction("tap") EXCEPT !.coordinates = c] :
            c \in {Point(Num(10000), Num(20000)), Point(Num(-1000), Num(0)), Point(NaN, Num(0))}}

KeypressAction == BaseAction("keypress")
TypeTextAction == BaseAction("typeText")
FindElementsAction(e) == [BaseAction("findElements") EXCEPT !.element = e]

ActionInputs == TargetInputs \cup {KeypressAction, FindElementsAction("selector")}

TimeoutInputs ==
  {Undefined, NaN, Num(-1), Num(0), Num(499), Num(500), Num(10000),
   Num(10001), Num(25000)}

\* every action with the default timeout, every timeout with a keypress,
\* and positions the mapper has to judge with a timeout of three attempts
PlayActionInputs ==
  (ActionInputs \X {Undefined})
    \cup ({KeypressAction} \X TimeoutInputs)
    \cup ({[BaseAction("tap") EXCEPT !.position = Point(a, Num(500))] :
            a \in {Num(1001), Num(-1), NaN, Str(<<"1", "0", "1", "%">>),
                   Str(<<"a", "b", "c", "%">>), Str(<<"5", "0">>)}}
          \X {Num(25000)})

WrapperTimeoutInputs == {Undefined, Num(10001)}

\* an action object of the caller: ref is its identity, so that two objects
\* with the same content are told apart and one object can be listed twice
Obj(ref, action) == [ref |-> ref] @@ action

BatchActionInputs ==
  {Obj(1, KeypressAction),
   Obj(2, KeypressAction),
   Obj(3, [BaseAction("tap") EXCEPT !.position = Point(Num(500), Num(500))]),
   Obj(4, [BaseAction("tap") EXCEPT !.position = Point(Num(1001), Num(500))])}

BatchInputs ==
  UNION {[1..n -> BatchActionInputs] : n \in 0..MaxActions}

DeviceInputs ==
  {[platform |-> "ios",
    screen |-> [width |-> 390, height |-> 844, devicePixelRatio |-> 0]],
   [platform |-> "android",
    screen |-> [width |-> 360, height |-> 640, devicePixelRatio |-> 3]]}

----------------------------------------------------------------------------
(* Initial state: a session as constructed, no operation invoked *)

\* the fields of a session as its constructor leaves them
Constructed ==
  /\ attached = TRUE
  /\ disconnected = FALSE
  /\ isEndingManually = FALSE
  /\ countdownWarning = FALSE
  /\ ready = FALSE
  /\ adbConnection = FALSE
  /\ networkInspectorUrl = FALSE
  /\ emitted = 0
  /\ delivered = 0
  /\ stale = 0
  /\ warnings = <<>>
  /\ lastInactivity = "none"

\* no waitUntilReady call has been made
NoWait ==
  /\ wpc = "none"
  /\ isConnected = TRUE
  /\ clock = 0
  /\ werr = ""
  /\ polls = 0
  /\ netDone = FALSE
  /\ adbDone = FALSE

Callers == 1..MaxWaiters

\* since is lastTimeUnderThreshold (-1 when undefined); first is the
\* timestamp of the first event of the current run of events at or below
\* the threshold (-1 when there is none) and due tells that a run spanning
\* the minimum duration has been received
IdleAnim ==
  [state |-> "idle", threshold |-> 0, since |-> -1, first |-> -1, due |-> FALSE,
   lowest |-> 0]

\* _waitForAnimationsPromises is empty
NoAnimations ==
  /\ anims = [c \in Callers |-> IdleAnim]
  /\ animSent = <<>>

DEFAULT_STEP_DURATION == 16
DEFAULT_DURATION == 500

\* no gesture has been started
NoGesture ==
  /\ gesture = [duration |-> [set |-> FALSE, ms |-> 0],
                stepDuration |-> DEFAULT_STEP_DURATION,
                moves |-> <<>>]
  /\ built = [status |-> "none", err |-> "", minimum |-> 0, moves |-> <<>>]

\* no action has been given to the mappers
NoMapping ==
  /\ mapIn = [type |-> "none", position |-> NoPoint, moves |-> <<>>]
  /\ mapOut = [stage |-> "none", ok |-> FALSE, coordinates |-> NoPoint,
               moves |-> <<>>, position |-> NoPoint, back |-> <<>>]
  /\ routed = <<>>

\* offered: newSession has arrived since requestSession was sent
NoStart == [pc |-> "idle", hadSession |-> FALSE, trace |-> <<>>,
            granted |-> FALSE, answered |-> FALSE, err |-> "", offered |-> FALSE]

\* initLatest: the init() started last has not finished; initEarlier: the
\* number of init() calls started before it that have not finished
NoTally == [events |-> 0, queue |-> 0, queueEnd |-> 0, newSession |-> 0, starts |-> 0,
            initLatest |-> TRUE, initEarlier |-> 0]

\* the client after its constructor: init() has not finished
NoClient ==
  /\ cReady = FALSE
  /\ cQueue = 0
  /\ cSession = 0
  /\ instances = <<>>
  /\ start = NoStart
  /\ startListeners = {}
  /\ handledBy = {}
  /\ tally = NoTally

\* no waitForEvent call has armed a timer, and a client just constructed
NoMore ==
  /\ eventTimers = {}
  /\ NoClient

NoExtras ==
  /\ NoGesture
  /\ NoMapping
  /\ NoMore

\* no public operation has been invoked
NoOperation ==
  /\ calls = 0
  /\ op = ""
  /\ pc = "idle"
  /\ batch = <<>>
  /\ idx = 0
  /\ options = Undefined
  /\ attempts = <<>>
  /\ listeners = {}
  /\ timer = NoTimer
  /\ waited = 0
  /\ nextId = 1
  /\ sent = <<>>
  /\ result = NoResult
  /\ lastEvent = NoEvent

Init ==
  /\ Constructed
  /\ NoWait
  /\ proxy = "none"
  /\ enableAdb = FALSE
  /\ NoAnimations
  /\ NoExtras
  /\ record \in BOOLEAN
  /\ \E d \in DeviceInputs : platform = d.platform /\ screen = d.screen
  /\ NoOperation

\* operations are invoked on a session that has not been disconnected
CanCall == pc = "idle" /\ calls < MaxCalls /\ attached

\* what every invocation of a public operation resets
Invoke(name, actions, opt) ==
  /\ CanCall
  /\ calls' = calls + 1
  /\ op' = name
  /\ batch' = actions
  /\ options' = opt
  /\ lastEvent' = NoEvent
  /\ UNCHANGED <<sessionVars, extVars, record, platform, screen>>

ThrowBeforePlay(cls, feature) ==
  /\ pc' = "rejected"
  /\ result' = Rejected(cls, feature, 0)
  /\ attempts' = <<>>
  /\ sent' = <<>>
  /\ timer' = NoTimer
  /\ waited' = 0
  /\ UNCHANGED <<listeners, nextId>>

\* session.playAction(action, options)
CallPlayAction ==
  \E in \in PlayActionInputs :
    /\ Invoke("playAction", <<in[1]>>, in[2])
    /\ idx' = 1
    /\ PlayAction(in[1], TimeoutOf(in[2]), <<>>, listeners, <<>>)

\* tap(): duration = (args.duration ?? 0) / 1000
TapDuration(d) ==
  IF d.t = "undefined" THEN Num(0)
  ELSE IF d.t = "number" /\ ~d.nan THEN Num(d.v)
  ELSE NaN

TapInputs ==
  {[BaseAction("tap") EXCEPT !.position = p] :
     p \in {Point(Num(500), Num(500)), Point(Num(1001), Num(500))}}
    \cup {[BaseAction("tap") EXCEPT !.element = "selector"]}

\* session.tap(args, options)
CallTap ==
  \E a \in TapInputs, d \in {Undefined, Num(300)}, o \in WrapperTimeoutInputs :
    LET action == [a EXCEPT !.duration = TapDuration(d)]
    IN  /\ Invoke("tap", <<action>>, o)
        /\ idx' = 1
        /\ IF ~record
             THEN ThrowBeforePlay("RecorderRequiredError", "tap()")
             ELSE PlayAction(action, TimeoutOf(o), <<>>, listeners, <<>>)

SwipeInputs ==
  {[BaseAction("swipe") EXCEPT !.position = Point(Str(<<"5", "0", "%">>), Num(500))],
   [BaseAction("swipe") EXCEPT !.element = "selector"],
   BaseAction("swipe")}

\* session.swipe(args, options); the gesture is one of the convenience
\* directions, whose build() succeeds
CallSwipe ==
  \E a \in SwipeInputs, o \in {Undefined} :
    /\ Invoke("swipe", <<a>>, o)
    /\ idx' = 1
    /\ IF ~record
         THEN ThrowBeforePlay("RecorderRequiredError", "swipe()")
       ELSE IF a.element = "none" /\ ~a.position.present
         THEN ThrowBeforePlay("Error", "")
       ELSE PlayAction(a, TimeoutOf(o), <<>>, listeners, <<>>)

\* session.findElement(element, options) and session.findElements
CallFindElement ==
  \E name \in {"findElement", "findElements"}, e \in {"selector", "misplaced"},
     o \in {Undefined} :
    /\ Invoke(name, <<FindElementsAction(e)>>, o)
    /\ idx' = 1
    /\ PlayAction(FindElementsAction(e), TimeoutOf(o), <<>>, listeners, <<>>)

\* session.keypress(key, options): ANDROID_KEYCODE_MENU is sent as a command
\* of its own, every other key is played as a keypress action
CallKeypress ==
  \E key \in {"a", "HOME", "ANDROID_KEYCODE_MENU"} :
    /\ Invoke("keypress", <<KeypressAction>>, Undefined)
    /\ idx' = 1
    /\ IF key = "ANDROID_KEYCODE_MENU"
         THEN /\ pc' = "resolved"
              /\ result' = [NoResult EXCEPT !.status = "resolved"]
              /\ sent' = <<[cmd |-> "androidKeycodeMenu", id |-> 0]>>
              /\ attempts' = <<>>
              /\ timer' = NoTimer
              /\ waited' = 0
              /\ UNCHANGED <<listeners, nextId>>
         ELSE PlayAction(KeypressAction, TimeoutOf(Undefined), <<>>, listeners, <<>>)

\* session.type(text): waits 1000 ms before it plays the typeText action
CallType ==
  /\ Invoke("type", <<TypeTextAction>>, Undefined)
  /\ idx' = 1
  /\ pc' = "typeDelay"
  /\ result' = NoResult
  /\ attempts' = <<>>
  /\ sent' = <<>>
  /\ timer' = NoTimer
  /\ waited' = 0
  /\ UNCHANGED <<listeners, nextId>>

\* the 1000 ms timer of type() fires
TypeDelayDone ==
  /\ pc = "typeDelay"
  /\ PlayAction(TypeTextAction, TimeoutOf(Undefined), <<>>, listeners, sent)
  /\ lastEvent' = NoEvent
  /\ UNCHANGED <<sessionVars, extVars, record, platform, screen, calls, op, batch, idx, options>>

\* the 500 ms timer after the typeText action fires
TypePostDone ==
  /\ pc = "typePost"
  /\ pc' = "resolved"
  /\ result' = [result EXCEPT !.status = "resolved"]
  /\ lastEvent' = NoEvent
  /\ UNCHANGED <<sessionVars, extVars, record, platform, screen, calls, op, batch, idx, options,
                 attempts, listeners, timer, waited, nextId, sent>>

\* session.playActions(actions, options)
CallPlayActions ==
  \E b \in BatchInputs, o \in {Undefined} :
    /\ Invoke("playActions", b, o)
    /\ IF ~record
         THEN idx' = 0 /\ ThrowBeforePlay("RecorderRequiredError", "playActions()")
       ELSE IF Len(b) = 0
         THEN /\ idx' = 0
              /\ pc' = "resolved"
              /\ result' = [NoResult EXCEPT !.status = "resolved"]
              /\ attempts' = <<>>
              /\ sent' = <<>>
              /\ timer' = NoTimer
              /\ waited' = 0
              /\ UNCHANGED <<listeners, nextId>>
       ELSE /\ idx' = 1
            /\ PlayAction(b[1], TimeoutOf(o), <<>>, listeners, <<>>)

\* actions.indexOf(action): the first index holding the action object
IndexOf(actions, action) ==
  CHOOSE i \in 1..Len(actions) :
    actions[i] = action /\ \A j \in 1..(i - 1) : actions[j] # action

\* isConsecutiveKeypress of playActions, for the action at index i
isConsecutiveKeypress(actions, i) ==
  LET n == IndexOf(actions, actions[i]) + 1
  IN  /\ n <= Len(actions)
      /\ actions[n].type = "keypress"
      /\ actions[i].type = "keypress"

\* What the operation does when its playAction call resolves: most return
\* the result, type() waits 500 ms, playActions waits for animations to
\* settle unless the next action continues a run of keypresses.
Continue(id, log, lsn) ==
  IF op = "type"
    THEN /\ pc' = "typePost"
         /\ result' = [NoResult EXCEPT !.by = id]
         /\ attempts' = log /\ listeners' = lsn /\ timer' = NoTimer
         /\ waited' = 0
         /\ UNCHANGED <<idx, nextId, sent>>
  ELSE IF op = "playActions"
    THEN IF isConsecutiveKeypress(batch, idx)
           THEN IF idx < Len(batch)
                  THEN /\ idx' = idx + 1
                       /\ PlayAction(batch[idx + 1], TimeoutOf(options), <<>>, lsn, sent)
                  ELSE /\ pc' = "resolved"
                       /\ result' = [NoResult EXCEPT !.status = "resolved", !.by = id]
                       /\ attempts' = log /\ listeners' = lsn /\ timer' = NoTimer
                       /\ waited' = 0
                       /\ UNCHANGED <<idx, nextId, sent>>
           ELSE /\ pc' = "settle"
                /\ result' = [NoResult EXCEPT !.by = id]
                /\ attempts' = log /\ listeners' = lsn /\ timer' = NoTimer
                /\ waited' = 0
                /\ UNCHANGED <<idx, nextId, sent>>
  ELSE /\ pc' = "resolved"
       /\ result' = [NoResult EXCEPT !.status = "resolved", !.by = id]
       /\ attempts' = log /\ listeners' = lsn /\ timer' = NoTimer
       /\ waited' = 0
       /\ UNCHANGED <<idx, nextId, sent>>

\* the animation-settle wait of playActions ends (settled or timed out) and
\* the loop goes on to the next action
SettleDone ==
  /\ pc = "settle"
  /\ IF idx < Len(batch)
       THEN /\ idx' = idx + 1
            /\ PlayAction(batch[idx + 1], TimeoutOf(options), <<>>, listeners, sent)
       ELSE /\ pc' = "resolved"
            /\ result' = [result EXCEPT !.status = "resolved"]
            /\ UNCHANGED <<idx, attempts, listeners, timer, waited, nextId, sent>>
  /\ lastEvent' = NoEvent
  /\ UNCHANGED <<sessionVars, extVars, record, platform, screen, calls, op, batch, options>>

\* variant: the handlers do not compare the request id
CorrelatesAlways(eventId, payloadId) == TRUE

\* the test of handleSuccess and handleError: value.playback?.id === payload.id
Correlates(eventId, payloadId) == eventId = payloadId

\* cleanup() of an attempt: both listeners off (the timer is cleared with it)
Cleanup(id) == listeners \ {[event |-> e, id |-> id] : e \in PlaybackEvents}

Mark(log, errorId, outcome) ==
  [log EXCEPT ![Len(log)].errorId = errorId, ![Len(log)].outcome = outcome]

\* variant: the error of the first attempt is kept and rethrown
RethrowFirst(log, err, id) == Rejected(log[1].outcome, "", log[1].id)

\* throw e of the retry catch block: the error just caught
Rethrow(log, err, id) == Rejected(err, "", id)

\* The pending attempt rejects with err: the retry catch block either calls
\* playAction again with the remaining timeout or rethrows.
Fail(err, errorId, id) ==
  LET log == Mark(attempts, errorId, err)
      timeout == CurrentAttempt.timeout
  IN  IF ShouldRetry(timeout, err)
        THEN /\ PlayAction(batch[idx], Num(RemainingTimeout(timeout)), log,
                           Cleanup(id), sent)
             /\ idx' = idx
        ELSE /\ pc' = "rejected"
             /\ result' = Rethrow(log, err, id)
             /\ attempts' = log
             /\ listeners' = Cleanup(id)
             /\ timer' = NoTimer
             /\ waited' = 0
             /\ UNCHANGED <<idx, nextId, sent>>

InFlight == {"typeDelay", "pending", "settle", "typePost"}

\* While an operation is in flight the channel emits a playbackFoundAndSent
\* or playbackError event, for any request id ever issued (or none): the
\* session re-emits it and each installed listener runs.
Deliver ==
  \E type \in PlaybackEvents, id \in 0..(nextId - 1), errorId \in ErrorIds \cup {""} :
    /\ (type = "playbackError") = (errorId # "")
    /\ pc \in InFlight
    /\ attached
    /\ lastEvent' = [type |-> type, id |-> id]
    /\ UNCHANGED <<sessionVars, extVars, record, platform, screen, calls, op, batch, options>>
    /\ LET hit == {l \in listeners : l.event = type /\ Correlates(id, l.id)}
       IN  IF hit # {}
             THEN LET l == CHOOSE h \in hit : TRUE
                  IN  IF type = "playbackFoundAndSent"
                        THEN Continue(l.id, Mark(attempts, "", "resolved"), Cleanup(l.id))
                        ELSE Fail(ErrorForId(errorId), errorId, l.id)
             ELSE UNCHANGED <<pc, idx, attempts, listeners, timer, waited,
                              nextId, sent, result>>

\* time passes while an attempt is pending, never beyond its hard timer
Tick ==
  /\ pc = "pending"
  /\ timer.armed
  /\ waited < timer.ms
  /\ waited' = Min(waited + TickMs, timer.ms)
  /\ lastEvent' = NoEvent
  /\ UNCHANGED <<sessionVars, extVars, record, platform, screen, calls, op, pc, batch, idx, options,
                 attempts, listeners, timer, nextId, sent, result>>

\* the hard timer of the pending attempt fires: cleanup, then reject with
\* ActionTimeoutError
HardTimeout ==
  /\ pc = "pending"
  /\ timer.armed
  /\ waited = timer.ms
  /\ Fail("ActionTimeoutError", "", CurrentAttempt.id)
  /\ lastEvent' = NoEvent
  /\ UNCHANGED <<sessionVars, extVars, record, platform, screen, calls, op, batch, options>>

\* The caller has observed the outcome of the operation; the locals of the
\* finished call are gone and the session is at rest.
Return ==
  /\ pc \in {"resolved", "rejected"}
  /\ pc' = "idle"
  /\ op' = ""
  /\ batch' = <<>>
  /\ idx' = 0
  /\ options' = Undefined
  /\ attempts' = <<>>
  /\ sent' = <<>>
  /\ result' = NoResult
  /\ lastEvent' = NoEvent
  /\ UNCHANGED <<sessionVars, extVars, record, platform, screen, calls, listeners, timer, waited, nextId>>

----------------------------------------------------------------------------
(* core/session.ts: the session and its channel *)

NoScreen == [width |-> 0, height |-> 0, devicePixelRatio |-> 0]

\* events of the channel the session knows, one the outbound mapper renames
\* (debug is re-emitted as log) and one it suppresses (deleteEvent)
ChannelEventInputs ==
  {[type |-> t, filled |-> TRUE, screen |-> NoScreen] :
     t \in {"ready", "adbOverTcp", "countdownWarning", "timeoutReset", "debug",
            "deleteEvent"}}
    \cup {[type |-> "networkInspectorUrl", filled |-> f, screen |-> NoScreen] :
            f \in BOOLEAN}
    \cup {[type |-> "deviceInfo", filled |-> TRUE, screen |-> d.screen] :
            d \in DeviceInputs}

\* mapAppetizerEvent(type, value) returns null: the event is not re-emitted
Suppressed(type) == type = "deleteEvent"

\* handleSocketEvent({ type, value })
handleSocketEvent(e) ==
  /\ ready' = (ready \/ e.type = "ready")
  /\ adbConnection' = (adbConnection \/ e.type = "adbOverTcp")
  /\ networkInspectorUrl' =
       IF e.type = "networkInspectorUrl" THEN e.filled ELSE networkInspectorUrl
  /\ countdownWarning' =
       IF e.type = "countdownWarning" THEN TRUE
       ELSE IF e.type = "timeoutReset" THEN FALSE
       ELSE countdownWarning
  /\ screen' = IF e.type = "deviceInfo" THEN e.screen ELSE screen
  /\ emitted' = IF Suppressed(e.type) THEN emitted ELSE emitted + 1

\* The channel delivers an event other than disconnect.  A session whose
\* handler is installed handles it; the channel goes on delivering events
\* after that session is gone.
ChannelEvent ==
  \E e \in ChannelEventInputs :
    /\ delivered < MaxEvents
    /\ delivered' = delivered + 1
    /\ stale' = IF disconnected THEN stale + 1 ELSE stale
    /\ lastInactivity' =
         IF attached /\ e.type \in {"countdownWarning", "timeoutReset"}
           THEN e.type ELSE lastInactivity
    /\ IF attached
         THEN handleSocketEvent(e)
         ELSE UNCHANGED <<ready, adbConnection, networkInspectorUrl,
                          countdownWarning, screen, emitted>>
    /\ UNCHANGED <<attached, disconnected, isEndingManually, proxy, enableAdb,
                   warnings, waitVars, animVars, extVars, playVars>>

\* variant: the disconnect handler leaves handleSocketEvent installed
StaysAttachedOnDisconnect == TRUE

\* this.socket.off('*', handleSocketEvent) of the disconnect handler
AttachedAfterDisconnect == FALSE

\* variant: the disconnect handler does not look at isEndingManually
WarnsWhenEndedManually(manual) == TRUE

\* if (!this.isEndingManually) of the disconnect handler
ShouldWarn(manual) == ~manual

\* what the disconnect handler logs
DisconnectWarning(manual, countdown, log) ==
  IF ShouldWarn(manual)
    THEN Append(log, IF countdown THEN "Appetize session has ended due to inactivity"
                     ELSE "Session disconnected")
    ELSE log

\* The channel emits disconnect: first to the disconnect listener of a
\* pending waitUntilReady, then through handleSocketEvent to the session,
\* which re-emits it and runs the handler installed by the constructor.
Disconnect ==
  /\ isConnected' = IF wpc = "sleeping" THEN FALSE ELSE isConnected
  /\ IF attached
       THEN /\ emitted' = emitted + 1
            /\ disconnected' = TRUE
            /\ attached' = AttachedAfterDisconnect
            /\ warnings' = DisconnectWarning(isEndingManually, countdownWarning, warnings)
       ELSE UNCHANGED <<emitted, disconnected, attached, warnings>>
  /\ UNCHANGED <<ready, adbConnection, networkInspectorUrl, countdownWarning,
                 screen, lastInactivity, isEndingManually, proxy, enableAdb,
                 wpc, clock, werr, polls, netDone, adbDone, animVars, extVars>>

\* the channel reports disconnect to a session at rest or waiting to be ready
ChannelDisconnect ==
  /\ delivered < MaxEvents
  /\ delivered' = delivered + 1
  /\ stale' = IF disconnected THEN stale + 1 ELSE stale
  /\ Disconnect
  /\ UNCHANGED playVars

\* the channel reports disconnect while an operation is in flight
DisconnectInFlight ==
  /\ pc \in InFlight
  /\ attached
  /\ Disconnect
  /\ lastEvent' = NoEvent
  /\ UNCHANGED <<delivered, stale, record, platform, calls, op, pc, batch, idx,
                 options, attempts, listeners, timer, waited, nextId, sent, result>>

\* this.socket.disconnect() of end(): the request sent on the channel
EndCommand == "disconnect"

\* session.end(): isEndingManually = true, then the disconnect request.
\* The handler installed by the constructor stays installed.
End ==
  /\ calls < MaxCalls
  /\ calls' = calls + 1
  /\ isEndingManually' = TRUE
  /\ sent' = Append(sent, [cmd |-> EndCommand, id |-> 0])
  /\ UNCHANGED <<attached, disconnected, countdownWarning, ready, adbConnection,
                 networkInspectorUrl, proxy, enableAdb, emitted, delivered, stale,
                 warnings, lastInactivity, waitVars, animVars, extVars, screen>>
  /\ UNCHANGED <<record, platform, op, pc, batch, idx, options, attempts,
                 listeners, timer, waited, nextId, result, lastEvent>>


\* options.timeout of waitForEvent: left out, a number, or null
Null == [t |-> "null", nan |-> FALSE, v |-> 0, s |-> <<>>]
EventTimeoutInputs == {Undefined, Num(5000), Null}

\* typeof options?.timeout !== 'undefined' ? options.timeout : 10000
EventTimeout(timeout) == IF timeout = Undefined THEN Num(10000) ELSE timeout

\* variant: the timer of waitForEvent rejects and leaves the listener installed
EventStaysOn(id) == listeners

\* emitter.off(event, listener), for the listener of one waitForEvent call
EventOff(id) == {l \in listeners : l.id # id}

\* session.waitForEvent(event, options): the listener is installed and,
\* unless the timeout is null, the timer is set
CallWaitForEvent ==
  \E event \in PlaybackEvents, timeout \in EventTimeoutInputs :
    /\ CanCall
    /\ calls' = calls + 1
    /\ op' = "waitForEvent"
    /\ pc' = "awaiting"
    /\ batch' = <<>>
    /\ idx' = 0
    /\ options' = Undefined
    /\ attempts' = <<>>
    /\ result' = NoResult
    /\ lastEvent' = NoEvent
    /\ listeners' = listeners \cup {[event |-> event, id |-> nextId]}
    /\ nextId' = nextId + 1
    /\ eventTimers' = IF EventTimeout(timeout) = Null THEN eventTimers
                      ELSE eventTimers \cup {nextId}
    /\ UNCHANGED <<sessionVars, gestureVars, mapperVars, clientVars, record,
                   platform, screen, timer, waited, sent>>

\* The session emits an event while waitForEvent is pending: the listener
\* runs the predicate (none given counts as passed) and, if it passes,
\* removes itself and resolves.  The timer stays armed.
DeliverAwaited ==
  \E type \in PlaybackEvents, passes \in BOOLEAN :
    /\ pc = "awaiting"
    /\ attached
    /\ lastEvent' = [type |-> type, id |-> 0]
    /\ LET hit == {l \in listeners : l.event = type}
       IN  IF hit # {} /\ passes
             THEN /\ listeners' = listeners \ hit
                  /\ pc' = "resolved"
                  /\ result' = [NoResult EXCEPT !.status = "resolved"]
             ELSE UNCHANGED <<listeners, pc, result>>
    /\ UNCHANGED <<sessionVars, extVars, record, platform, screen, calls, op, batch,
                   idx, options, attempts, timer, waited, nextId, sent>>

\* The timer of a waitForEvent call fires: the listener is taken off and
\* the promise rejected with a TimeoutError, which has no effect on a
\* promise that is already resolved.
EventTimerFires ==
  \E id \in eventTimers :
    /\ eventTimers' = eventTimers \ {id}
    /\ listeners' = EventOff(id)
    /\ IF pc = "awaiting" /\ (\E l \in listeners : l.id = id)
         THEN /\ pc' = "rejected"
              /\ result' = Rejected("TimeoutError", "", id)
         ELSE UNCHANGED <<pc, result>>
    /\ lastEvent' = NoEvent
    /\ UNCHANGED <<sessionVars, gestureVars, mapperVars, clientVars, record,
                   platform, screen, calls, op, batch, idx, options, attempts, timer,
                   waited, nextId, sent>>

Next ==
  \/ CallPlayAction
  \/ CallTap
  \/ CallSwipe
  \/ CallFindElement
  \/ CallKeypress
  \/ CallType
  \/ CallPlayActions
  \/ TypeDelayDone
  \/ TypePostDone
  \/ SettleDone
  \/ Deliver
  \/ Tick
  \/ HardTimeout
  \/ Return
  \/ DisconnectInFlight
  \/ CallWaitForEvent
  \/ DeliverAwaited
  \/ EventTimerFires

Spec == Init /\ [][Next]_vars

\* playAction is the only operation called; setTimeout callbacks run: time
\* passes while an attempt is pending and its hard timer fires when its
\* delay is over
PlayNext ==
  \/ CallPlayAction
  \/ Deliver
  \/ Tick
  \/ HardTimeout
  \/ Return
  \/ DisconnectInFlight

FairSpec == Init /\ [][PlayNext]_vars /\ WF_vars(Tick) /\ WF_vars(HardTimeout)

----------------------------------------------------------------------------
(* core/session.ts: Session.waitUntilReady, core/waitFor.ts: waitFor *)

READY_TIMEOUT == 180000
POLL_INTERVAL == 100
VALUE_TIMEOUT == 3000

\* how long a sleep of waitFor lasts: the 100 ms asked for, or longer
SleepInputs == {POLL_INTERVAL, 90000}

\* variant: a disconnect is not told apart from a session that is not ready
PollIgnoringDisconnect(isReady, connected) ==
  IF isReady THEN "" ELSE "TimeoutError"

\* the callback waitUntilReady gives to waitFor: it returns when the session
\* is ready, throws a TimeoutError while the channel is connected and bails
\* with Error('Session disconnected') otherwise
PollCallback(isReady, connected) ==
  IF isReady THEN ""
  ELSE IF connected THEN "TimeoutError"
  ELSE "Session disconnected"

\* variant: the wait for a property rejects when it expires
ExpiredValueRejects == "rejected"

\* waitForValue resolves when its 3000 ms timer fires
ExpiredValueOutcome == "resolved"

\* The wait for properties after the readiness phase: one waitForValue for
\* networkInspectorUrl when proxy is 'intercept', one for adbConnection
\* when enableAdb is set; net and adb tell which have resolved.
AwaitValues(net, adb, elapsed) ==
  /\ netDone' = net
  /\ adbDone' = adb
  /\ clock' = elapsed
  /\ werr' = ""
  /\ wpc' = IF net /\ adb
              THEN (IF elapsed >= VALUE_TIMEOUT THEN ExpiredValueOutcome ELSE "resolved")
              ELSE "props"

\* one iteration of the loop of waitFor: fn is called; when it throws the
\* loop sleeps, when it returns waitUntilReady goes on to the properties
Poll(elapsed) ==
  IF PollCallback(ready, isConnected') = ""
    THEN AwaitValues(proxy # "intercept", ~enableAdb, 0)
    ELSE /\ wpc' = "sleeping"
         /\ werr' = PollCallback(ready, isConnected')
         /\ clock' = elapsed
         /\ UNCHANGED <<netDone, adbDone>>

\* session.waitUntilReady() is called: the disconnect listener is installed
\* and waitFor calls fn for the first time
StartWait ==
  /\ wpc = "none"
  /\ isConnected' = TRUE
  /\ polls' = 1
  /\ Poll(0)
  /\ UNCHANGED <<attached, disconnected, isEndingManually, countdownWarning,
                 ready, adbConnection, networkInspectorUrl, proxy, enableAdb,
                 emitted, delivered, stale, warnings, lastInactivity, animVars, extVars,
                 screen, playVars>>

\* the sleep of waitFor ends: it rethrows after a bail or when more than
\* the timeout has passed since the start, and calls fn again otherwise
Wake ==
  \E d \in SleepInputs :
    /\ wpc = "sleeping"
    /\ isConnected' = isConnected
    /\ IF werr = "Session disconnected" \/ clock + d > READY_TIMEOUT
         THEN /\ wpc' = "rejected"
              /\ clock' = clock + d
              /\ UNCHANGED <<werr, polls, netDone, adbDone>>
         ELSE /\ polls < MaxPolls
              /\ polls' = polls + 1
              /\ Poll(clock + d)
    /\ UNCHANGED <<attached, disconnected, isEndingManually, countdownWarning,
                   ready, adbConnection, networkInspectorUrl, proxy, enableAdb,
                   emitted, delivered, stale, warnings, lastInactivity, animVars, extVars,
                   screen, playVars>>

\* time passes in the wait for properties: the intervals of the pending
\* waitForValue calls fire, and at 3000 ms their timers
ValueTick ==
  /\ wpc = "props"
  /\ AwaitValues(netDone \/ networkInspectorUrl
                    \/ Min(clock + ValueTickMs, VALUE_TIMEOUT) = VALUE_TIMEOUT,
                 adbDone \/ adbConnection
                    \/ Min(clock + ValueTickMs, VALUE_TIMEOUT) = VALUE_TIMEOUT,
                 Min(clock + ValueTickMs, VALUE_TIMEOUT))
  /\ UNCHANGED <<isConnected, polls>>
  /\ UNCHANGED <<attached, disconnected, isEndingManually, countdownWarning,
                 ready, adbConnection, networkInspectorUrl, proxy, enableAdb,
                 emitted, delivered, stale, warnings, lastInactivity, animVars, extVars,
                 screen, playVars>>

\* a session as constructed, of any configuration, with no call made
LifeInit ==
  /\ Constructed
  /\ NoWait
  /\ proxy \in {"none", "intercept"}
  /\ enableAdb \in BOOLEAN
  /\ NoAnimations
  /\ NoExtras
  /\ record = TRUE
  /\ platform = "ios"
  /\ screen = [width |-> 390, height |-> 844, devicePixelRatio |-> 0]
  /\ NoOperation

LifeNext ==
  \/ ChannelEvent
  \/ ChannelDisconnect
  \/ End
  \/ StartWait
  \/ Wake
  \/ ValueTick

LifeSpec == LifeInit /\ [][LifeNext]_vars

\* timers that are due fire: the sleeps of waitFor and the intervals and
\* timers of waitForValue
LiveLifeSpec == LifeSpec /\ WF_vars(Wake) /\ WF_vars(ValueTick)

----------------------------------------------------------------------------
(* core/session.ts and core/api/mapper.ts: the events a session re-emits *)

\* events of the channel: the ones that update the session, ones the mapper
\* renames and the one it suppresses
RoutedEventInputs ==
  ChannelEventInputs
    \cup {[type |-> t, filled |-> TRUE, screen |-> NoScreen] :
            t \in {"userError", "recordedAction", "userInteractionReceived"}}

\* the type of the event mapAppetizerEvent(event, data) returns; "null" when
\* it returns null and "undefined" when no case of its switch matches
mapAppetizerEvent(event) ==
  CASE event = "debug" -> "log"
    [] event \in {"interceptResponse", "interceptRequest", "interceptError"} -> "network"
    [] event = "userError" -> "error"
    [] event = "recordedAction" -> "action"
    [] event = "playbackFoundAndSent" -> "playbackFoundAndSent"
    [] event = "playbackError" -> "playbackError"
    [] event = "uiDump" -> "uiDump"
    [] event = "userInteractionReceived" -> "interaction"
    [] event = "countdownWarning" -> "inactivityWarning"
    [] event \in {"h264Data", "frameData"} -> "video"
    [] event = "audioData" -> "audio"
    [] event = "deleteEvent" -> "null"
    [] OTHER -> "undefined"

\* variant: the listeners run before the switch on the type
EmittedBeforeUpdate(before, after) == before

\* the state of the session its listeners find: the emit calls follow the
\* switch on the type
EmittedAfterUpdate(before, after) == after

\* this.emit(name, value); this.emit('*', { type: name, value })
EmitPair(name, seen) ==
  <<[event |-> name, type |-> name, seen |-> seen],
    [event |-> "*", type |-> name, seen |-> seen]>>

\* the emit calls at the end of handleSocketEvent
Emissions(type, seen) ==
  IF mapAppetizerEvent(type) \notin {"null", "undefined"}
    THEN EmitPair(mapAppetizerEvent(type), seen)
  ELSE IF mapAppetizerEvent(type) # "null"
    THEN EmitPair(type, seen)
  ELSE <<>>

\* The channel delivers an event other than disconnect; what the handler of
\* the session emits for it is recorded.
RouteEvent ==
  \E e \in RoutedEventInputs :
    /\ delivered < MaxEvents
    /\ delivered' = delivered + 1
    /\ stale' = IF disconnected THEN stale + 1 ELSE stale
    /\ lastInactivity' =
         IF attached /\ e.type \in {"countdownWarning", "timeoutReset"}
           THEN e.type ELSE lastInactivity
    /\ lastEvent' = [type |-> e.type, id |-> 0]
    /\ IF attached
         THEN /\ handleSocketEvent(e)
              /\ routed' = Emissions(e.type,
                   EmittedAfterUpdate(
                     <<ready, adbConnection, networkInspectorUrl, countdownWarning, screen>>,
                     <<ready', adbConnection', networkInspectorUrl', countdownWarning',
                       screen'>>))
         ELSE /\ routed' = <<>>
              /\ UNCHANGED <<ready, adbConnection, networkInspectorUrl,
                             countdownWarning, screen, emitted>>
    /\ UNCHANGED <<attached, disconnected, isEndingManually, proxy, enableAdb,
                   warnings, waitVars, animVars, gestureVars, mapIn, mapOut, moreVars,
                   record, platform, calls, op, pc, batch, idx, options, attempts,
                   listeners, timer, waited, nextId, sent, result>>

EventNext ==
  \/ RouteEvent
  \/ ChannelDisconnect

EventSpec == LifeInit /\ [][EventNext]_vars

----------------------------------------------------------------------------
(* core/session.ts: Session.waitForAnimations *)

DEFAULT_IMAGE_THRESHOLD == 1         \* imageThreshold = 0.001
IMAGE_THRESHOLD_DURATION == 1000     \* imageThresholdDuration

ENABLE == "enablePixelChangeDetection"
DISABLE == "disablePixelChangeDetection"

\* imageThreshold as passed by the caller, in thousandths
ThresholdInputs == {Undefined, Num(0)}

\* pixelsChanged events: the share of pixels changed, in thousandths, and
\* the timestamp of the frame
PercentageInputs == {0, 2}
TimestampInputs == {0, 1000, 2000}

\* _waitForAnimationsPromises: the calls in flight
Waiting(a) == {c \in Callers : a[c].state = "inflight"}

\* a JavaScript number that is not undefined and not 0
Defined(t) == t # -1 /\ t # 0

\* let lowestImageThreshold = 1, in thousandths
INITIAL_LOWEST == 1000

\* if (percentage < lowestImageThreshold) lowestImageThreshold = percentage
LowerLowest(lowest, percentage) ==
  IF percentage < lowest THEN percentage ELSE lowest

\* handlePixelsChanged({ percentage, timestamp }) of one call in flight
handlePixelsChanged(w, percentage, timestamp) ==
  IF percentage <= w.threshold
    THEN [w EXCEPT
            !.lowest = LowerLowest(w.lowest, percentage),
            !.since = IF Defined(w.since) THEN w.since ELSE timestamp,
            !.state = IF Defined(IF Defined(w.since) THEN w.since ELSE timestamp)
                         /\ timestamp - (IF Defined(w.since) THEN w.since ELSE timestamp)
                              >= IMAGE_THRESHOLD_DURATION
                        THEN "resolved" ELSE "inflight"]
    ELSE [w EXCEPT !.lowest = LowerLowest(w.lowest, percentage), !.since = -1]

\* the run of events at or below the threshold a call has received
TrackRun(w, percentage, timestamp) ==
  IF percentage <= w.threshold
    THEN [first |-> IF w.first = -1 THEN timestamp ELSE w.first,
          due |-> w.due \/ timestamp - (IF w.first = -1 THEN timestamp ELSE w.first)
                             >= IMAGE_THRESHOLD_DURATION]
    ELSE [first |-> -1, due |-> w.due]

\* variant: detection is disabled whenever a call departs
DisableOnEveryDeparture(a) == TRUE

\* this._waitForAnimationsPromises.size === 0
NoneWaiting(a) == Waiting(a) = {}

\* the finally handlers of the calls that have settled: each leaves the set
\* and the one that leaves it empty sends disablePixelChangeDetection
Depart(before, after) ==
  IF Waiting(after) # Waiting(before) /\ NoneWaiting(after)
    THEN Append(animSent, DISABLE)
    ELSE animSent

Enables == Cardinality({k \in 1..Len(animSent) : animSent[k] = ENABLE})

\* session.waitForAnimations(options) is called
CallWaitForAnimations ==
  \E c \in Callers, th \in ThresholdInputs :
    /\ anims[c].state # "inflight"
    /\ Enables < MaxAnimCalls
    /\ animSent' = Append(animSent, ENABLE)
    /\ anims' = [anims EXCEPT ![c] =
         [state |-> "inflight",
          threshold |-> IF th.t = "undefined" THEN DEFAULT_IMAGE_THRESHOLD ELSE th.v,
          since |-> -1, first |-> -1, due |-> FALSE, lowest |-> INITIAL_LOWEST]]
    /\ UNCHANGED <<lifeVars, screen, playVars, extVars>>

\* the channel emits pixelsChanged: the handler of every call in flight
\* runs, then the finally handlers of the calls it resolved
PixelsChanged ==
  \E percentage \in PercentageInputs, timestamp \in TimestampInputs :
    LET after == [c \in Callers |->
                    IF anims[c].state = "inflight"
                      THEN [handlePixelsChanged(anims[c], percentage, timestamp)
                              EXCEPT !.first = TrackRun(anims[c], percentage, timestamp).first,
                                     !.due = TrackRun(anims[c], percentage, timestamp).due]
                      ELSE anims[c]]
    IN  /\ Waiting(anims) # {}
        /\ anims' = after
        /\ animSent' = Depart(anims, after)
        /\ UNCHANGED <<lifeVars, screen, playVars, extVars>>

\* Math.round(lowestImageThreshold * 10000) / 10000 of a value in
\* thousandths: ten times the value is a whole number of ten-thousandths
RoundedLowest(lowest) == (((lowest * 10) * 2 + 1) \div 2) \div 10

\* the message of the TimeoutError: the sentence naming the threshold and the
\* lowest value is appended (detail) when imageThreshold < lowestImageThreshold
TimeoutMessage(w) ==
  IF w.threshold < w.lowest
    THEN [detail |-> TRUE, imageThreshold |-> w.threshold,
          lowest |-> RoundedLowest(w.lowest)]
    ELSE [detail |-> FALSE, imageThreshold |-> -1, lowest |-> -1]

\* the timer of a call in flight fires: it rejects with a TimeoutError and
\* its finally handler runs
AnimationTimeout ==
  \E c \in Callers :
    /\ anims[c].state = "inflight"
    /\ anims' = [anims EXCEPT ![c].state = "rejected"]
    /\ animSent' = Depart(anims, [anims EXCEPT ![c].state = "rejected"])
    /\ UNCHANGED <<lifeVars, screen, playVars, extVars>>

\* a ready session with no call made
AnimInit ==
  /\ Constructed
  /\ NoWait
  /\ proxy = "none"
  /\ enableAdb = FALSE
  /\ NoAnimations
  /\ NoExtras
  /\ record = TRUE
  /\ platform = "ios"
  /\ screen = [width |-> 390, height |-> 844, devicePixelRatio |-> 0]
  /\ NoOperation

AnimNext ==
  \/ CallWaitForAnimations
  \/ PixelsChanged
  \/ AnimationTimeout

AnimSpec == AnimInit /\ [][AnimNext]_vars

----------------------------------------------------------------------------
(* core/builders/swipe-gesture.ts: SwipeGesture *)

\* Durations, step durations, waits and the t of a move are in ms (the
\* source divides t by 1000 when it stores it); x and y of a waypoint are in
\* percent (the source divides them by 100).

BuildThrew(cls, minimum) ==
  [status |-> "thrown", err |-> cls, minimum |-> minimum, moves |-> <<>>]
Built(res) == [status |-> "ok", err |-> "", minimum |-> 0, moves |-> res]

\* what the caller passes as duration and stepDuration
DurationInputs ==
  {[set |-> FALSE, ms |-> 0]}
    \cup {[set |-> TRUE, ms |-> d] : d \in {0 - 5, 16, 31, 32, 500}}
StepDurationInputs == {0, 100}

\* what the caller passes to to(): percentages, a string that is no
\* percentage and a number
ToInputs ==
  {<<Str(<<"1", "0", "0", "%">>), Str(<<"0", "%">>)>>,
   <<Str(<<"0", "%">>), Str(<<"-", "5", "0", "%">>)>>,
   <<Str(<<"5", "0">>), Str(<<"0", "%">>)>>,
   <<Str(<<"0", "%">>), Num(50000)>>}

\* what the caller passes to wait()
WaitInputs == {20, 0 - 20}

\* parseFloat(s) of a string without fraction or exponent
parseFloat(s) == parseInt(s)

\* new SwipeGesture({ duration, stepDuration }); a stepDuration of 0 stands
\* for undefined, which the constructor replaces by 16
SwipeGesture(duration, stepDuration) ==
  [duration |-> duration,
   stepDuration |-> IF stepDuration = 0 THEN DEFAULT_STEP_DURATION ELSE stepDuration,
   moves |-> <<[x |-> [nan |-> FALSE, v |-> 0], y |-> [nan |-> FALSE, v |-> 0],
               wait |-> 0]>>]

\* the checks of to(x, y)
ToRejects(x, y) ==
  \/ x.t # "string"
  \/ y.t # "string"
  \/ ~endsWith(x.s, "%")
  \/ ~endsWith(y.s, "%")

\* to(x, y): this.moves.push({ x: parseFloat(x) / 100, y: parseFloat(y) / 100 })
to(g, x, y) ==
  [g EXCEPT !.moves = Append(@, [x |-> parseFloat(x.s), y |-> parseFloat(y.s),
                                  wait |-> 0])]

\* variant: a second wait() on a waypoint replaces the first
waitReplaces(g, d) ==
  [g EXCEPT !.moves[Len(g.moves)].wait = d]

\* wait(duration): previous.wait = duration + (previous.wait ?? 0)
wait(g, d) ==
  [g EXCEPT !.moves[Len(g.moves)].wait = d + @]

\* this.moves.length - 1
SegmentCount(g) == Len(g.moves) - 1

\* this.duration ?? Math.max(500, stepDuration * (this.moves.length - 1))
BuildDuration(g) ==
  IF g.duration.set
    THEN g.duration.ms
    ELSE Max(DEFAULT_DURATION, g.stepDuration * SegmentCount(g))

\* Math.floor(duration / stepDuration)
TotalSteps(g) == BuildDuration(g) \div g.stepDuration

\* Math.floor(totalSteps / (this.moves.length - 1)), for at least one segment
StepsPerSegment(g) == TotalSteps(g) \div SegmentCount(g)

\* lowerCoord + progress * (upperCoord - lowerCoord) with progress =
\* step / stepsPerSegment, as the fraction num / den of a percentage
Interpolate(lower, upper, step, sps) ==
  IF lower.nan \/ upper.nan
    THEN [nan |-> TRUE, num |-> 0, den |-> 1]
    ELSE [nan |-> FALSE, num |-> lower.v * sps + step * (upper.v - lower.v),
          den |-> sps]

\* ((i * stepsPerSegment + step) * stepDuration + accruedWaitTime)
StepTime(g, sps, i, step, accruedWaitTime) ==
  (i * sps + step) * g.stepDuration + accruedWaitTime

\* variant: the wait of a waypoint is not carried over to the later moves
ForgetWait(accruedWaitTime, w) == accruedWaitTime

\* accruedWaitTime += lowerCoord.wait
AccrueWait(accruedWaitTime, w) == accruedWaitTime + w

StepMove(g, sps, i, step, t) ==
  [x |-> Interpolate(g.moves[i + 1].x, g.moves[i + 2].x, step, sps),
   y |-> Interpolate(g.moves[i + 1].y, g.moves[i + 2].y, step, sps),
   t |-> t]

\* the two loops of build() from pair i (counted from 0) and step on
RECURSIVE BuildFrom(_, _, _, _, _, _)
BuildFrom(g, sps, i, step, accruedWaitTime, res) ==
  IF i >= SegmentCount(g) THEN res
  ELSE IF step > sps
    THEN BuildFrom(g, sps, i + 1, 0, accruedWaitTime,
           IF i = SegmentCount(g) - 1 /\ g.moves[i + 2].wait # 0
             THEN Append(res,
                    [res[Len(res)] EXCEPT !.t = @ + g.moves[i + 2].wait])
             ELSE res)
  ELSE IF i # SegmentCount(g) - 1 /\ step = sps
    THEN BuildFrom(g, sps, i, step + 1, accruedWaitTime, res)
  ELSE IF step = 0 /\ g.moves[i + 1].wait # 0
    THEN BuildFrom(g, sps, i, step + 1,
           AccrueWait(accruedWaitTime, g.moves[i + 1].wait),
           res
             \o <<StepMove(g, sps, i, step, StepTime(g, sps, i, step, accruedWaitTime)),
                  StepMove(g, sps, i, step,
                           StepTime(g, sps, i, step, accruedWaitTime)
                             + g.moves[i + 1].wait)>>)
  ELSE BuildFrom(g, sps, i, step + 1, accruedWaitTime,
         Append(res,
                StepMove(g, sps, i, step, StepTime(g, sps, i, step, accruedWaitTime))))

\* if (stepsPerSegment === 0)
TooShort(sps) == sps = 0

\* build() of a gesture with at least one segment.  With a negative number
\* of steps per segment neither loop body runs: the result is empty, and
\* reading the last result for a trailing wait throws a TypeError.
BuildSegments(g, sps) ==
  IF TooShort(sps)
    THEN BuildThrew("Error", SegmentCount(g) * g.stepDuration)
  ELSE IF sps < 0
    THEN IF g.moves[Len(g.moves)].wait # 0
           THEN BuildThrew("TypeError", 0)
           ELSE Built(<<>>)
  ELSE Built(BuildFrom(g, sps, 0, 0, 0, <<>>))

\* build(); without a segment the outer loop does not run
build(g) ==
  IF SegmentCount(g) = 0 THEN Built(<<>>) ELSE BuildSegments(g, StepsPerSegment(g))

\* new SwipeGesture(args)
NewGesture ==
  \E duration \in DurationInputs, stepDuration \in StepDurationInputs :
    /\ gesture.moves = <<>>
    /\ gesture' = SwipeGesture(duration, stepDuration)
    /\ UNCHANGED <<built, mapperVars, moreVars, playVars, screen, sessionVars>>

\* gesture.to(x, y)
CallTo ==
  \E xy \in ToInputs :
    /\ gesture.moves # <<>>
    /\ built.status = "none"
    /\ IF ToRejects(xy[1], xy[2])
         THEN /\ built' = BuildThrew("OperationalError", 0)
              /\ UNCHANGED gesture
         ELSE /\ SegmentCount(gesture) < MaxWaypoints
              /\ gesture' = to(gesture, xy[1], xy[2])
              /\ UNCHANGED built
    /\ UNCHANGED <<mapperVars, moreVars, playVars, screen, sessionVars>>

\* the directions called (one that negates the distance and one that does
\* not); the distance left out is '50%'
DirectionInputs == {"up", "right"}
DistanceInputs == {Undefined}

\* String(n) of an integer, as a template literal writes it
RECURSIVE DigitsOf(_)
DigitsOf(n) ==
  IF n < 10 THEN <<CHOOSE c \in DigitChars : DigitVal(c) = n>>
  ELSE Append(DigitsOf(n \div 10), CHOOSE c \in DigitChars : DigitVal(c) = n % 10)

NumberString(n) == IF n < 0 THEN <<"-">> \o DigitsOf(0 - n) ELSE DigitsOf(n)

\* `${value}%` and `-${value}%`
Percent(value) == Str(NumberString(value) \o <<"%">>)
MinusPercent(value) == Str(<<"-">> \o NumberString(value) \o <<"%">>)

\* the arguments up(), down(), left() and right() give to to(), with value =
\* parseFloat(distance)
DirectionTo(dir, value) ==
  CASE dir = "up" -> <<Percent(0), MinusPercent(value)>>
    [] dir = "down" -> <<Percent(0), Percent(value)>>
    [] dir = "left" -> <<MinusPercent(value), Percent(0)>>
    [] dir = "right" -> <<Percent(value), Percent(0)>>

\* gesture.up(distance), down(distance), left(distance), right(distance)
CallDirection ==
  \E dir \in DirectionInputs, distance \in DistanceInputs :
    LET value == parseFloat(IF distance = Undefined THEN <<"5", "0", "%">> ELSE distance.s)
        xy == DirectionTo(dir, value.v)
    IN  /\ gesture.moves # <<>>
        /\ built.status = "none"
        /\ ~value.nan
        /\ SegmentCount(gesture) < MaxWaypoints
        /\ gesture' = to(gesture, xy[1], xy[2])
        /\ UNCHANGED <<built, mapperVars, moreVars, playVars, screen, sessionVars>>

\* gesture.wait(duration)
CallWait ==
  \E d \in WaitInputs :
    /\ gesture.moves # <<>>
    /\ built.status = "none"
    /\ gesture' = wait(gesture, d)
    /\ \A k \in 1..Len(gesture.moves) :
         gesture'.moves[k].wait \in (0 - MaxWaitMs)..MaxWaitMs
    /\ UNCHANGED <<built, mapperVars, moreVars, playVars, screen, sessionVars>>

\* gesture.build()
CallBuild ==
  /\ gesture.moves # <<>>
  /\ built.status = "none"
  /\ built' = build(gesture)
  /\ UNCHANGED <<gesture, mapperVars, moreVars, playVars, screen, sessionVars>>

\* a ready session; no gesture yet
GestureInit ==
  /\ Constructed
  /\ NoWait
  /\ proxy = "none"
  /\ enableAdb = FALSE
  /\ NoAnimations
  /\ NoExtras
  /\ record = TRUE
  /\ platform = "ios"
  /\ screen = [width |-> 390, height |-> 844, devicePixelRatio |-> 0]
  /\ NoOperation

GestureNext ==
  \/ NewGesture
  \/ CallTo
  \/ CallDirection
  \/ CallWait
  \/ CallBuild

GestureSpec == GestureInit /\ [][GestureNext]_vars

----------------------------------------------------------------------------
(* core/api/mapper.ts: positions to pixels and back *)

\* A position or pixel the inbound mapper computes is the fraction
\* num / den of thousandths.

NotMapped ==
  [stage |-> "none", ok |-> FALSE, coordinates |-> NoPoint, moves |-> <<>>,
   position |-> NoPoint, back |-> <<>>]

\* screens with the ratio absent (0), 1, 2 and 3
ScreenInputs ==
  {[width |-> 390, height |-> 844, devicePixelRatio |-> 0],
   [width |-> 360, height |-> 640, devicePixelRatio |-> 1],
   [width |-> 412, height |-> 915, devicePixelRatio |-> 2],
   [width |-> 360, height |-> 640, devicePixelRatio |-> 3]}

\* positions within [0, 1] and one beyond
UnitInputs ==
  {Point(x, y) : x \in {Num(0), Num(250), Num(1000)}, y \in {Num(500), Num(1000)}}
    \cup {Point(Num(1001), Num(500))}

\* moves of a gesture: x and y within [0, 1], t in ms
MoveInputs ==
  {[x |-> Num(0), y |-> Num(0), t |-> 0],
   [x |-> Num(500), y |-> Num(1000), t |-> 16],
   [x |-> Num(1000), y |-> Num(250), t |-> 32]}

MapperInputs ==
  {[type |-> "tap", position |-> p, moves |-> <<>>] : p \in UnitInputs}
    \cup {[type |-> "swipe", position |-> p, moves |-> m] :
            p \in UnitInputs,
            m \in UNION {[1..n -> MoveInputs] : n \in 1..MaxMoves}}

\* moves: action.moves.map(...) of the outbound mapper
MapMoves(plat, scr, moves) ==
  [k \in 1..Len(moves) |->
     [x |-> getCoordinates(moves[k], PositionBounds(plat, scr)).x,
      y |-> getCoordinates(moves[k], PositionBounds(plat, scr)).y,
      t |-> moves[k].t]]

\* mapAction(action) of the outbound mapper on a tap or swipe at a position
OutboundMapped(m, moves) ==
  [stage |-> "out", ok |-> m.ok, coordinates |-> m.coordinates,
   moves |-> IF m.ok THEN moves ELSE <<>>, position |-> NoPoint, back |-> <<>>]

\* value / (this.screen.devicePixelRatio || 1)
pixelToDip(scr, value) ==
  [num |-> value.v, den |-> IF scr.devicePixelRatio = 0 THEN 1 ELSE scr.devicePixelRatio]

\* getPosition(coordinates, bounds)
getPosition(coordinates, bounds) ==
  [x |-> [num |-> coordinates.x.num, den |-> coordinates.x.den * bounds.width],
   y |-> [num |-> coordinates.y.num, den |-> coordinates.y.den * bounds.height]]

\* the coordinates branch of mapAction of the inbound mapper
InboundPosition(scr, coordinates) ==
  getPosition([x |-> pixelToDip(scr, coordinates.x), y |-> pixelToDip(scr, coordinates.y)],
              [width |-> scr.width - 1, height |-> scr.height - 1])

\* the outbound mapper maps the action
MapOutbound ==
  /\ mapOut.stage = "none"
  /\ mapOut' = OutboundMapped(
                 mapAction(platform, screen,
                           [BaseAction(mapIn.type) EXCEPT !.position = mapIn.position]),
                 MapMoves(platform, screen, mapIn.moves))
  /\ UNCHANGED <<mapIn, routed, gestureVars, moreVars, playVars, screen, sessionVars>>

\* the inbound mapper maps the action the outbound mapper produced
MapInbound ==
  /\ mapOut.stage = "out"
  /\ mapOut.ok
  /\ mapOut' = [mapOut EXCEPT
       !.stage = "back",
       !.position = InboundPosition(screen, mapOut.coordinates),
       !.back = [k \in 1..Len(mapOut.moves) |->
                   InboundPosition(screen, mapOut.moves[k])]]
  /\ UNCHANGED <<mapIn, routed, gestureVars, moreVars, playVars, screen, sessionVars>>

\* a session of any platform and screen, and an action to map
MapperInit ==
  /\ Constructed
  /\ NoWait
  /\ proxy = "none"
  /\ enableAdb = FALSE
  /\ NoAnimations
  /\ NoGesture
  /\ NoMore
  /\ mapIn \in MapperInputs
  /\ mapOut = NotMapped
  /\ routed = <<>>
  /\ record = TRUE
  /\ platform \in {"ios", "android"}
  /\ screen \in ScreenInputs
  /\ NoOperation

MapperNext ==
  \/ MapOutbound
  \/ MapInbound

MapperSpec == MapperInit /\ [][MapperNext]_vars

\* taps and swipes with every combination of element, position and
\* coordinates, none included
TargetModeInputs ==
  {[BaseAction(type) EXCEPT !.element = e, !.position = p, !.coordinates = c] :
     type \in {"tap", "swipe"},
     e \in {"none", "selector"},
     p \in {NoPoint, Point(Num(500), Num(500)), Point(Num(1001), Num(500))},
     c \in {NoPoint, Point(Num(10000), Num(20000))}}

\* the outbound mapper maps an action of any targeting
MapTargeted ==
  /\ mapOut.stage = "none"
  /\ mapOut' = [stage |-> "target"] @@ mapAction(platform, screen, mapIn)
  /\ UNCHANGED <<mapIn, routed, gestureVars, moreVars, playVars, screen, sessionVars>>

TargetInit ==
  /\ Constructed
  /\ NoWait
  /\ proxy = "none"
  /\ enableAdb = FALSE
  /\ NoAnimations
  /\ NoGesture
  /\ NoMore
  /\ mapIn \in TargetModeInputs
  /\ mapOut = NotMapped
  /\ routed = <<>>
  /\ record = TRUE
  /\ platform \in {"ios", "android"}
  /\ screen \in ScreenInputs
  /\ NoOperation

TargetNext == MapTargeted

TargetSpec == TargetInit /\ [][TargetNext]_vars

----------------------------------------------------------------------------
(* core/buffer.ts: the message of ActionAmbiguousElementError *)

\* Strings are tuples of characters.

\* const maxElements = 5
maxElements == 5

\* JSON.stringify(e, null, 2) of the matched elements the device reports
ElementJsonInputs == {<<"{", "}">>, <<"1">>}

MatchedElementsInputs ==
  UNION {[1..n -> ElementJsonInputs] : n \in 0..MaxElements}

\* elements.slice(0, end)
SliceFromStart(elements, end) ==
  SubSeq(elements, 1, IF Len(elements) < end THEN Len(elements) ELSE end)

\* variant: a list of exactly maxElements elements counts as truncated
TruncatedFrom(elements) == Len(elements) >= maxElements

\* truncated = elements.length > maxElements
Truncated(elements) == Len(elements) > maxElements

\* `// ${index}\n${JSON.stringify(e, null, 2)}`, index counting from 0
FormatElement(e, index) ==
  <<"/", "/", " ">> \o NumberString(index) \o <<"\n">> \o e

\* parts.join(separator)
RECURSIVE Join(_, _)
Join(parts, separator) ==
  IF parts = <<>> THEN <<>>
  ELSE IF Len(parts) = 1 THEN parts[1]
  ELSE parts[1] \o separator \o Join(Tail(parts), separator)

\* `\n\n...and ${count} more`
AndMore(count) ==
  <<"\n", "\n", ".", ".", ".", "a", "n", "d", " ">> \o NumberString(count)
    \o <<" ", "m", "o", "r", "e">>

\* formatAmbiguousElements(elements)
formatAmbiguousElements(elements) ==
  Join([k \in 1..Len(SliceFromStart(elements, maxElements)) |->
          FormatElement(elements[k], k - 1)],
       <<"\n", "\n">>)
    \o (IF Truncated(elements) THEN AndMore(Len(elements) - maxElements) ELSE <<>>)

\* the message the constructor of ActionAmbiguousElementError builds (the
\* backquotes around matchIndex are written as apostrophes)
AmbiguousMessage(matchedElements) ==
  <<"Action requires 1 unique element but the selector returned ">>
    \o NumberString(Len(matchedElements))
    \o <<". Provide a 'matchIndex' to pick an element below or add additional attributes to your selector.",
         "\n", "\n">>
    \o formatAmbiguousElements(matchedElements)

\* handleError of an attempt receives the ambiguousMatch response: the
\* error it rejects with is constructed
RejectAmbiguous ==
  /\ result = NoResult
  /\ result' = [message |-> AmbiguousMessage(lastEvent.matchedElements)]
                 @@ Rejected(ErrorForId(lastEvent.errorId), "", lastEvent.id)
  /\ UNCHANGED <<record, platform, calls, op, pc, batch, idx, options, attempts,
                 listeners, timer, waited, nextId, sent, lastEvent, screen,
                 sessionVars, extVars>>

\* a playbackError response with errorId ambiguousMatch has arrived
FormatInit ==
  /\ Constructed
  /\ NoWait
  /\ proxy = "none"
  /\ enableAdb = FALSE
  /\ NoAnimations
  /\ NoExtras
  /\ record = TRUE
  /\ platform = "ios"
  /\ screen = [width |-> 390, height |-> 844, devicePixelRatio |-> 0]
  /\ calls = 0
  /\ op = ""
  /\ pc = "idle"
  /\ batch = <<>>
  /\ idx = 0
  /\ options = Undefined
  /\ attempts = <<>>
  /\ listeners = {}
  /\ timer = NoTimer
  /\ waited = 0
  /\ nextId = 1
  /\ sent = <<>>
  /\ result = NoResult
  /\ lastEvent \in {[type |-> "playbackError", id |-> 1, errorId |-> "ambiguousMatch",
                      matchedElements |-> m] : m \in MatchedElementsInputs}

FormatNext == RejectAmbiguous

FormatSpec == FormatInit /\ [][FormatNext]_vars

----------------------------------------------------------------------------
(* core/client: the client of the embedded window, its queue, its sessions
   and startSession *)

\* new EmbedSession(...): its own socket on the window, handleSocketEvent
\* installed, and waitForSessionStart pending on it
NewInstance ==
  [attached |-> TRUE, ready |-> FALSE, isConnected |-> TRUE,
   waiting |-> "pending", outcome |-> "pending", sessions |-> 0, errors |-> 0,
   isEndingManually |-> FALSE]

Instances == 1..Len(instances)

\* the listeners of waitForSessionStart are installed until waitUntilReady
\* settles
Listening(inst) == inst.waiting = "pending"

\* reject(...) of waitForSessionStart, and the catch block of the newSession
\* handler that follows it: sessionError is emitted
RejectStart(inst) ==
  IF Listening(inst) /\ inst.outcome = "pending"
    THEN [inst EXCEPT !.outcome = "rejected", !.errors = @ + 1]
    ELSE inst

Rejects(inst) == RejectStart(inst) # inst

\* variant: a handler takes off only the listener of the event it heard
OffHeard(installed, kind) == installed \ {kind}

\* this.off('session', handleResolve); this.off('sessionError', handleReject)
OffBoth(installed, kind) == {}

\* The client emits session or sessionError (said is TRUE): the handlers
\* of startSession that are installed run.
Heard(said, kind) ==
  /\ startListeners' = IF said /\ kind \in startListeners
                         THEN OffBoth(startListeners, kind) ELSE startListeners
  /\ start' =
       IF said /\ kind \in startListeners /\ start.pc = "requested"
         THEN IF kind = "session"
                THEN [start EXCEPT !.granted = TRUE,
                                   !.pc = IF start.answered THEN "resolved" ELSE @]
                ELSE [start EXCEPT !.pc = "rejected", !.err = "sessionError"]
         ELSE start

\* what the client leaves alone
notClient == <<playVars, screen, sessionVars, gestureVars, mapperVars, eventTimers>>

WindowEvent ==
  /\ tally.events < MaxWindowEvents
  /\ UNCHANGED notClient

\* one init() in progress has fetched the app, the device and the config:
\* this.ready = true
InitDone ==
  \E latest \in BOOLEAN :
    /\ IF latest THEN tally.initLatest ELSE tally.initEarlier > 0
    /\ tally' = IF latest THEN [tally EXCEPT !.initLatest = FALSE]
                          ELSE [tally EXCEPT !.initEarlier = @ - 1]
    /\ cReady' = TRUE
    /\ UNCHANGED <<cQueue, cSession, instances, start, startListeners, handledBy,
                   notClient>>

\* the window emits reinit (the frame was reloaded or replaced): the
\* listener clears ready and session and calls init({ isReinit: true })
Reinit ==
  /\ WindowEvent
  /\ tally' = [tally EXCEPT !.events = @ + 1,
                            !.initEarlier = IF tally.initLatest THEN @ + 1 ELSE @,
                            !.initLatest = TRUE]
  /\ cReady' = FALSE
  /\ cSession' = 0
  /\ UNCHANGED <<cQueue, instances, start, startListeners, handledBy>>

QueueEventInputs == {"queue", "concurrentQueue"}
QueuePositionInputs == {1, 2}

\* mapEvents: both queue events of the channel become the queue event of
\* the client
mapEvents(type) ==
  CASE type = "concurrentQueue" -> "queue"
    [] type = "queue" -> "queue"
    [] type = "userError" -> "error"
    [] type = "newSession" -> "null"
    [] OTHER -> type

\* the channel reports a position in the queue; the queue listener of the
\* constructor records it
QueueEvent ==
  \E type \in QueueEventInputs, position \in QueuePositionInputs :
    /\ WindowEvent
    /\ mapEvents(type) = "queue"
    /\ tally' = [tally EXCEPT !.events = @ + 1, !.queue = @ + 1]
    /\ cQueue' = position
    /\ UNCHANGED <<cReady, cSession, instances, start, startListeners, handledBy>>

\* variant: queueEnd is emitted and the position stays recorded
QueueKept(queue) == queue

\* this.queue = undefined
QueueCleared(queue) == 0

\* The channel grants a session.  The newSession listener of the base
\* client emits queueEnd if a position is recorded; the handler of the
\* headful client, if the client is ready, creates the session, makes it
\* this.session and awaits waitForSessionStart.
NewSession ==
  /\ WindowEvent
  /\ tally' = [tally EXCEPT !.events = @ + 1, !.newSession = @ + 1,
                            !.queueEnd = IF cQueue # 0 THEN @ + 1 ELSE @]
  /\ cQueue' = IF cQueue # 0 THEN QueueCleared(cQueue) ELSE cQueue
  /\ cReady => Len(instances) < MaxSessions
  /\ IF cReady
       THEN /\ instances' = Append(instances, NewInstance)
            /\ cSession' = Len(instances) + 1
       ELSE UNCHANGED <<instances, cSession>>
  /\ start' = IF start.pc = "requested" THEN [start EXCEPT !.offered = TRUE] ELSE start
  /\ UNCHANGED <<cReady, startListeners, handledBy>>

UserErrorInputs == {"Too many requests", "Invalid public key"}

\* ev.message.match(/Too many requests/)
TooManyRequests(message) == message = "Too many requests"

\* the channel reports a userError, which the client emits as error:
\* handleClientError of every pending waitForSessionStart runs
UserError ==
  \E message \in UserErrorInputs :
    /\ WindowEvent
    /\ tally' = [tally EXCEPT !.events = @ + 1]
    /\ LET fails == TooManyRequests(message) /\ \E i \in Instances : Rejects(instances[i])
       IN  /\ instances' = IF TooManyRequests(message)
                             THEN [i \in Instances |-> RejectStart(instances[i])]
                             ELSE instances
           /\ cSession' = IF fails THEN 0 ELSE cSession
           /\ Heard(fails, "sessionError")
    /\ UNCHANGED <<cReady, cQueue, handledBy>>

SessionEventInputs == {"ready", "error", "log"}

\* handleSocketEvent of one session for an event of the device channel
Handle(inst, type) ==
  IF ~inst.attached THEN inst
  ELSE IF type = "ready" THEN [inst EXCEPT !.ready = TRUE]
  ELSE IF type = "error" THEN RejectStart(inst)
  ELSE inst

\* The window passes on an event of the device channel: the socket of
\* every session instance emits it, and every instance whose handler is
\* installed handles and re-emits it.
SessionEvent ==
  \E type \in SessionEventInputs :
    /\ WindowEvent
    /\ instances # <<>>
    /\ tally' = [tally EXCEPT !.events = @ + 1]
    /\ handledBy' = {i \in Instances : instances[i].attached}
    /\ LET fails == \E i \in Instances : Handle(instances[i], type).errors # instances[i].errors
       IN  /\ instances' = [i \in Instances |-> Handle(instances[i], type)]
           /\ cSession' = IF fails THEN 0 ELSE cSession
           /\ Heard(fails, "sessionError")
    /\ UNCHANGED <<cReady, cQueue>>

\* one session on disconnect: the once-listener of a pending waitUntilReady,
\* then handleSocketEvent, the disconnect listener of the constructor (the
\* handler is taken off) and handleDisconnect of waitForSessionStart
Disconnected(inst) ==
  LET heard == [inst EXCEPT !.isConnected = IF Listening(inst) THEN FALSE ELSE @]
  IN  IF inst.attached
        THEN [RejectStart(heard) EXCEPT !.attached = FALSE]
        ELSE heard

\* The window emits disconnect: every socket emits it.  The disconnect
\* listener installed by createSession clears this.session.
WindowDisconnect ==
  /\ WindowEvent
  /\ instances # <<>>
  /\ tally' = [tally EXCEPT !.events = @ + 1]
  /\ handledBy' = {i \in Instances : instances[i].attached}
  /\ instances' = [i \in Instances |-> Disconnected(instances[i])]
  /\ cSession' = IF \E i \in Instances : instances[i].attached THEN 0 ELSE cSession
  /\ Heard(\E i \in Instances : Rejects(instances[i]) /\ instances[i].attached,
           "sessionError")
  /\ UNCHANGED <<cReady, cQueue>>

\* session.waitUntilReady() of instance i returns (the session is ready and
\* the waits for its properties are over): the listeners of
\* waitForSessionStart come off, resolve(session) runs and, if the promise
\* was still pending, the handler emits session.
BecomesReady(i) ==
  /\ instances[i].waiting = "pending"
  /\ instances[i].ready
  /\ LET says == instances[i].outcome = "pending"
     IN  /\ instances' =
               [instances EXCEPT ![i].waiting = "done",
                                 ![i].outcome = IF says THEN "resolved" ELSE @,
                                 ![i].sessions = IF says THEN @ + 1 ELSE @]
         /\ Heard(says, "session")
  /\ UNCHANGED <<cReady, cQueue, cSession, handledBy, tally, notClient>>

\* session.waitUntilReady() of instance i throws: after 180 s without
\* ready, or because the channel was disconnected.  The finally block takes
\* the listeners off and the error leaves the async executor; neither
\* resolve nor reject is called.
WaitThrows(i) ==
  /\ instances[i].waiting = "pending"
  /\ ~instances[i].ready
  /\ instances' = [instances EXCEPT ![i].waiting = "threw"]
  /\ UNCHANGED <<cReady, cQueue, cSession, start, startListeners, handledBy, tally,
                 notClient>>

WaitSettles == \E i \in Instances : BecomesReady(i) \/ WaitThrows(i)

\* client.startSession(config) is called
CallStartSession ==
  /\ start.pc = "idle"
  /\ tally.starts < MaxStarts
  /\ tally' = [tally EXCEPT !.starts = @ + 1]
  /\ start' = [NoStart EXCEPT !.pc = "waitUntilReady"]
  /\ UNCHANGED <<cReady, cQueue, cSession, instances, startListeners, handledBy,
                 notClient>>

\* waitUntilReady of the client gives up after 30 s
StartNotReady ==
  /\ start.pc = "waitUntilReady"
  /\ ~cReady
  /\ start' = [start EXCEPT !.pc = "rejected",
                 !.err = "Failed to start session. Timed out waiting for client to be ready"]
  /\ UNCHANGED <<cReady, cQueue, cSession, instances, startListeners, handledBy,
                 tally, notClient>>

\* the client is ready: end() of the session there is, or else setConfig
StartReady ==
  /\ start.pc = "waitUntilReady"
  /\ cReady
  /\ IF cSession # 0
       THEN /\ start' = [start EXCEPT !.pc = "end", !.hadSession = TRUE,
                                      !.trace = <<"endSession">>]
            /\ instances' = [instances EXCEPT ![cSession].isEndingManually = TRUE]
       ELSE /\ start' = [start EXCEPT !.pc = "setConfig", !.trace = <<"setConfig">>]
            /\ UNCHANGED instances
  /\ UNCHANGED <<cReady, cQueue, cSession, startListeners, handledBy, tally, notClient>>

\* postMessage('endSession') has returned: setConfig is sent
EndPosted ==
  /\ start.pc = "end"
  /\ start' = [start EXCEPT !.pc = "setConfig", !.trace = Append(@, "setConfig")]
  /\ UNCHANGED <<cReady, cQueue, cSession, instances, startListeners, handledBy,
                 tally, notClient>>

\* the elements of the array given to Promise.all, in the order they run:
\* the promise whose executor installs both listeners, then postMessage
RequestSteps == <<"listen", "requestSession">>

\* the window has answered setConfig: the listeners are installed and
\* requestSession is sent
ConfigSet ==
  /\ start.pc = "setConfig"
  /\ start' = [start EXCEPT !.pc = "requested", !.trace = @ \o RequestSteps]
  /\ startListeners' = {"session", "sessionError"}
  /\ UNCHANGED <<cReady, cQueue, cSession, instances, handledBy, tally, notClient>>

\* the window has answered requestSession
RequestAnswered ==
  /\ start.pc = "requested"
  /\ ~start.answered
  /\ start' = [start EXCEPT !.answered = TRUE,
                            !.pc = IF start.granted THEN "resolved" ELSE @]
  /\ UNCHANGED <<cReady, cQueue, cSession, instances, startListeners, handledBy,
                 tally, notClient>>

\* the window has not answered setConfig or requestSession within 60 s
PostTimesOut ==
  /\ \/ start.pc = "setConfig"
     \/ start.pc = "requested" /\ ~start.answered
  /\ start' = [start EXCEPT !.pc = "rejected", !.err = "TimeoutError"]
  /\ UNCHANGED <<cReady, cQueue, cSession, instances, startListeners, handledBy,
                 tally, notClient>>

\* the caller of startSession has its session or its error
StartReturn ==
  /\ start.pc \in {"resolved", "rejected"}
  /\ start' = NoStart
  /\ UNCHANGED <<cReady, cQueue, cSession, instances, startListeners, handledBy,
                 tally, notClient>>

ClientInit ==
  /\ Constructed
  /\ NoWait
  /\ proxy = "none"
  /\ enableAdb = FALSE
  /\ NoAnimations
  /\ NoExtras
  /\ record = TRUE
  /\ platform = "ios"
  /\ screen = [width |-> 390, height |-> 844, devicePixelRatio |-> 0]
  /\ NoOperation

ClientNext ==
  \/ InitDone
  \/ Reinit
  \/ QueueEvent
  \/ NewSession
  \/ UserError
  \/ SessionEvent
  \/ WindowDisconnect
  \/ WaitSettles
  \/ CallStartSession
  \/ StartNotReady
  \/ StartReady
  \/ EndPosted
  \/ ConfigSet
  \/ RequestAnswered
  \/ PostTimesOut
  \/ StartReturn

ClientSpec == ClientInit /\ [][ClientNext]_vars

\* The waits of the client end: init() finishes, the polling of
\* waitUntilReady stops at the latest when its 180 s are over, and the
\* awaits of startSession return or time out.
FairClientSpec ==
  /\ ClientSpec
  /\ WF_vars(InitDone)
  /\ WF_vars(WaitSettles)
  /\ WF_vars(StartNotReady \/ StartReady \/ EndPosted \/ ConfigSet \/ PostTimesOut)

----------------------------------------------------------------------------
(* Properties of the action dispatcher *)

\* the timeout the caller's playAction call started with
CallerTimeout == TimeoutOf(options).v

Failed(a) == a.outcome \notin {"pending", "resolved"}

RetryableClasses ==
  {"ActionElementNotFoundError", "ActionAmbiguousElementError", "ActionError"}

Seconds(log) == [i \in 1..Len(log) |-> log[i].seconds]

\* C1: a playAction call with timeout T sends at most max(1, ceil(T / 10000))
\* playAction commands; attempt i is issued with the remaining budget
\* T - 10000 * (i - 1) and carries round(min(remaining, 10000) / 1000)
\* seconds, an integer in 0..10; with T = 25000 and only retryable errors
\* the attempts are exactly three, carrying 10 s, 10 s and 5 s.
C1_AttemptsWithinBudget ==
  /\ Len(attempts) <= Max(1, (CallerTimeout + 9999) \div 10000)
  /\ \A i \in 1..Len(attempts) :
       LET remaining == CallerTimeout - 10000 * (i - 1)
           capped == IF remaining < 10000 THEN remaining ELSE 10000
       IN  /\ attempts[i].timeout = remaining
           /\ attempts[i].seconds = (2 * capped + 1000) \div 2000
           /\ attempts[i].seconds \in 0..10
  /\ Cardinality({k \in 1..Len(sent) : sent[k].cmd = "playAction"
                     /\ \E i \in 1..Len(attempts) : attempts[i].id = sent[k].id})
       = Len(attempts)
  /\ (/\ pc = "rejected"
      /\ Len(attempts) > 0
      /\ CallerTimeout = 25000
      /\ \A i \in 1..Len(attempts) : attempts[i].outcome \in RetryableClasses)
       => Seconds(attempts) = <<10, 10, 5>>

C1_Witness ==
  /\ op = "playAction"
  /\ pc = "rejected"
  /\ options = Num(25000)
  /\ Len(attempts) = 3
  /\ \A i \in 1..3 : attempts[i].outcome \in RetryableClasses

\* C2: when the last attempt of a playAction call has failed, the call is
\* rejected with the error of that attempt, not resolved and not rejected
\* with the error of an earlier attempt.
C2_LastErrorSurfaces ==
  (Len(attempts) > 0 /\ Failed(attempts[Len(attempts)]))
    => /\ pc = "rejected"
       /\ result.status = "rejected"
       /\ result.err = attempts[Len(attempts)].outcome
       /\ result.by = attempts[Len(attempts)].id

C2_Witness ==
  /\ pc = "rejected"
  /\ Len(attempts) = 3
  /\ attempts[1].outcome = "ActionAmbiguousElementError"
  /\ attempts[3].outcome = "ActionElementNotFoundError"
  /\ result.err = "ActionElementNotFoundError"

\* C3: an attempt that ended with ActionTimeoutError or ActionInternalError
\* is the last attempt of its call, whatever budget remains, and the call
\* is rejected with that error.
C3_TimeoutAndInternalAreTerminal ==
  \A i \in 1..Len(attempts) :
    attempts[i].outcome \in {"ActionTimeoutError", "ActionInternalError"}
      => /\ i = Len(attempts)
         /\ pc = "rejected"
         /\ result.err = attempts[i].outcome
         /\ sent[Len(sent)].id = attempts[i].id

C3_Witness ==
  /\ pc = "rejected"
  /\ Len(attempts) = 2
  /\ attempts[2].outcome = "ActionInternalError"
  /\ RemainingTimeout(attempts[2].timeout) > 0

\* C4 as stated: an attempt that ended with ActionInvalidArgumentError is
\* never followed by another attempt.
C4_InvalidArgumentIsTerminal ==
  \A i \in 1..Len(attempts) :
    attempts[i].outcome = "ActionInvalidArgumentError" => i = Len(attempts)

\* C4: an invalidArgument response rejects the attempt with
\* ActionInvalidArgumentError; the attempt is followed by another one
\* exactly when its remaining budget (timeout - 10000) is positive, and
\* otherwise the call is rejected with that error.
C4_InvalidArgumentRetriedWithinBudget ==
  \A i \in 1..Len(attempts) :
    attempts[i].errorId = "invalidArgument"
      => /\ attempts[i].outcome = "ActionInvalidArgumentError"
         /\ (i < Len(attempts)) <=> (attempts[i].timeout - 10000 > 0)
         /\ (i = Len(attempts))
              => (pc = "rejected" /\ result.err = "ActionInvalidArgumentError")

C4_Witness ==
  /\ Len(attempts) = 2
  /\ attempts[1].errorId = "invalidArgument"
  /\ attempts[2].outcome = "pending"

\* C5: the class a correlated playbackError rejects an attempt with depends
\* on the errorId alone, and notFound, ambiguousMatch and unknown ids are
\* followed by another attempt while budget remains.
C5_ErrorClassByErrorId ==
  \A i \in 1..Len(attempts) :
    attempts[i].errorId # ""
      => /\ attempts[i].errorId = "internalError"
              => attempts[i].outcome = "ActionInternalError"
         /\ attempts[i].errorId = "notFound"
              => attempts[i].outcome = "ActionElementNotFoundError"
         /\ attempts[i].errorId = "ambiguousMatch"
              => attempts[i].outcome = "ActionAmbiguousElementError"
         /\ attempts[i].errorId = "invalidArgument"
              => attempts[i].outcome = "ActionInvalidArgumentError"
         /\ attempts[i].errorId \notin
               {"internalError", "notFound", "ambiguousMatch", "invalidArgument"}
              => attempts[i].outcome = "ActionError"
         /\ (/\ attempts[i].errorId \notin {"internalError", "invalidArgument"}
             /\ attempts[i].timeout > 10000)
              => i < Len(attempts)

C5_Witness ==
  /\ Len(attempts) = 3
  /\ attempts[1].errorId = "somethingElse"
  /\ attempts[1].outcome = "ActionError"
  /\ attempts[2].errorId = "notFound"
  /\ attempts[2].outcome = "ActionElementNotFoundError"

\* C6: the request ids of the attempts are pairwise distinct and new to the
\* session, and an event whose playback id is not the id of the pending
\* attempt leaves that attempt pending with its listeners and timer.
C6_StaleResponsesIgnored ==
  /\ [](\A i, j \in 1..Len(attempts) :
          (i # j => attempts[i].id # attempts[j].id) /\ attempts[i].id < nextId)
  /\ [][(Len(attempts') > Len(attempts))
          => attempts'[Len(attempts')].id \notin 1..(nextId - 1)]_vars
  /\ [][(pc = "pending" /\ lastEvent' # NoEvent /\ lastEvent'.id # CurrentAttempt.id)
          => /\ pc' = "pending"
             /\ attempts' = attempts
             /\ listeners' = listeners
             /\ timer' = timer
             /\ result' = result]_vars

C6_Witness ==
  /\ pc = "pending"
  /\ Len(attempts) >= 2
  /\ lastEvent.type = "playbackFoundAndSent"
  /\ lastEvent.id = attempts[1].id
  /\ CurrentAttempt.outcome = "pending"

\* C7 as stated: the hard timer of an attempt is its timeout capped at
\* 10000 ms plus 10000 ms, so that no attempt waits more than 20000 ms.
C7_HardTimerCappedAt20s ==
  (pc = "pending" /\ timer.armed)
    => /\ timer.ms = Min(CurrentAttempt.timeout, 10000) + 10000
       /\ waited <= 20000

\* C7: the hard timer of an attempt is the attempt's timeout (the remaining
\* budget, not capped) plus 10000 ms, and the attempt waits no longer than
\* that; the wait is within 20000 ms when the remaining budget is within
\* 10000 ms.
C7_HardTimerIsBudgetPlus10s ==
  (pc = "pending")
    => /\ timer.armed
       /\ timer.ms = CurrentAttempt.timeout + 10000
       /\ waited <= CurrentAttempt.timeout + 10000
       /\ (CurrentAttempt.timeout <= 10000 => waited <= 20000)

C7_Witness ==
  /\ pc = "pending"
  /\ CurrentAttempt.timeout = 25000
  /\ timer.ms = 35000
  /\ waited > 20000

\* the name an operation would carry in the RecorderRequiredError message
FeatureName(o) ==
  CASE o = "playAction" -> "playAction()"
    [] o = "playActions" -> "playActions()"
    [] o = "tap" -> "tap()"
    [] o = "swipe" -> "swipe()"
    [] o = "findElement" -> "findElement()"
    [] o = "findElements" -> "findElements()"
    [] o = "keypress" -> "keypress()"
    [] o = "type" -> "type()"
    [] OTHER -> ""

\* C8: on a session whose config.record is not true, an operation built on
\* playAction is rejected at once with a RecorderRequiredError that names
\* the operation the caller invoked, and sends no playAction command.  (The
\* ANDROID_KEYCODE_MENU key is not played through playAction.)
C8_RecorderRequiredNamesCaller ==
  (~record /\ op # "" /\ ~(op = "keypress" /\ pc = "resolved"))
    => /\ pc = "rejected"
       /\ result.err = "RecorderRequiredError"
       /\ result.feature = FeatureName(op)
       /\ \A k \in 1..Len(sent) : sent[k].cmd # "playAction"

\* C9: playAction with a NaN or negative timeout is rejected with an
\* OperationalError (the RecorderRequiredError of a session that does not
\* record is one) with nothing sent, no listener, no timer and no attempt;
\* a timeout of 0 is accepted and makes exactly one attempt.
C9_InvalidTimeoutRejectedBeforeSend ==
  /\ (op = "playAction" /\ (options.nan \/ (options.t = "number" /\ options.v < 0)))
       => /\ pc = "rejected"
          /\ result.err = IF record THEN "OperationalError" ELSE "RecorderRequiredError"
          /\ attempts = <<>>
          /\ sent = <<>>
          /\ listeners = {}
          /\ ~timer.armed
  /\ (op = "playAction" /\ options = Num(0) /\ record /\ batch[1].type = "keypress")
       => /\ pc \in {"pending", "resolved", "rejected"}
          /\ Len(attempts) = 1
          /\ Len(sent) = 1
          /\ attempts[1].seconds = 0

C9_Witness ==
  /\ op = "playAction"
  /\ record
  /\ options = NaN
  /\ pc = "rejected"
  /\ result.err = "OperationalError"

\* s[i..j] is a non-empty run of digits
AllDigits(s, i, j) == i <= j /\ \A k \in i..j : s[k] \in DigitChars

DotsOf(s) == {k \in 1..Len(s) : s[k] = "."}

\* what a percentage string denotes: an optional sign, digits, an optional
\* fraction and the % sign; it lies in 0%..100% when it is not negative and
\* is at most 100
PercentageWithinRange(s) ==
  LET n == Len(s)
      first == IF n > 0 /\ s[1] \in {"-", "+"} THEN 2 ELSE 1
      dots == DotsOf(s)
      dot == IF dots = {} THEN n ELSE CHOOSE k \in dots : TRUE
      whole == DigitsFrom(s, first, 0)
      fractionZero == \A k \in (dot + 1)..(n - 1) : s[k] = "0"
  IN  /\ n >= 2
      /\ s[n] = "%"
      /\ Cardinality(dots) <= 1
      /\ AllDigits(s, first, dot - 1)
      /\ (dots # {} => AllDigits(s, dot + 1, n - 1))
      /\ (s[1] = "-" => (whole = 0 /\ fractionZero))
      /\ (whole < 100 \/ (whole = 100 /\ fractionZero))

\* an axis of a position as the data model defines it: a number in [0, 1]
\* or a percentage in 0%..100%
AxisWithinRange(value) ==
  \/ value.t = "number" /\ ~value.nan /\ value.v >= 0 /\ value.v <= 1000
  \/ value.t = "string" /\ PercentageWithinRange(value.s)

\* C10: an action whose position has an axis out of range, malformed or not
\* numeric is rejected without any attempt, and every coordinate derived
\* from a position lies on the screen in the platform's pixels.
C10_InvalidPositionNeverPlayed ==
  (pc # "idle" /\ idx \in 1..Len(batch) /\ batch[idx].position.present)
    => /\ (~AxisWithinRange(batch[idx].position.x) \/ ~AxisWithinRange(batch[idx].position.y))
            => (pc = "rejected" /\ attempts = <<>> /\ result.by = 0)
       /\ \A i \in 1..Len(attempts) :
            attempts[i].action.coordinates.present
              => LET c == attempts[i].action.coordinates
                     w == IF platform = "android"
                            THEN dipToPixel(screen, screen.width) ELSE screen.width
                     h == IF platform = "android"
                            THEN dipToPixel(screen, screen.height) ELSE screen.height
                 IN  /\ c.x.v >= 0 /\ c.x.v <= 1000 * (w - 1)
                     /\ c.y.v >= 0 /\ c.y.v <= 1000 * (h - 1)

\* the action in flight went through the checks of playAction down to the
\* mapper, and mapAction threw
MapperRejected ==
  /\ pc = "rejected"
  /\ record
  /\ idx \in 1..Len(batch)
  /\ result.by = 0
  /\ result.feature = ""
  /\ ~TimeoutOf(options).nan
  /\ ~TimeoutIsNegative(TimeoutOf(options))
  /\ (batch[idx].element # "none" => validateElementAttributes(batch[idx].element))
  /\ ~mapAction(platform, screen, batch[idx]).ok

\* C11: every validation failure raised by the outbound mapAction is an
\* OperationalError.
C11_MapperFailuresAreOperational ==
  MapperRejected => result.err = "OperationalError"

----------------------------------------------------------------------------
(* Properties of the session and its channel *)

\* the state of the session its channel events set
SessionState ==
  <<ready, screen, adbConnection, networkInspectorUrl, countdownWarning>>

\* C12: once a session has received the disconnect event, no event the
\* channel delivers changes its state (ready, device, adbConnection,
\* networkInspectorUrl, countdownWarning) and none is re-emitted to its
\* subscribers.
C12_StaleEventsIgnored ==
  [][disconnected => (UNCHANGED SessionState /\ emitted' = emitted)]_vars

C12_Witness ==
  /\ disconnected
  /\ stale >= 2
  /\ ~ready

\* C13: a session is in its terminal state once the channel has reported
\* disconnect and once end() has returned; from then on it neither reacts
\* to channel events nor re-emits them, and it stays so.
C13_EndIsTerminal ==
  [][(disconnected \/ isEndingManually)
       => (UNCHANGED SessionState /\ emitted' = emitted)]_vars

\* C14: a disconnect that arrives after end() was called logs nothing,
\* whatever countdownWarning is; otherwise it logs exactly one warning, the
\* one about inactivity when the last countdownWarning / timeoutReset event
\* received was countdownWarning and 'Session disconnected' when not.
C14_OneWarningUnlessEndedManually ==
  /\ [](~disconnected => warnings = <<>>)
  /\ [](Len(warnings) <= 1)
  /\ [][(~disconnected /\ disconnected')
          => warnings' =
               IF isEndingManually THEN <<>>
               ELSE IF lastInactivity = "countdownWarning"
                 THEN <<"Appetize session has ended due to inactivity">>
               ELSE <<"Session disconnected">>]_vars
  /\ [][disconnected => warnings' = warnings]_vars

C14_Witness ==
  /\ disconnected
  /\ isEndingManually
  /\ countdownWarning
  /\ warnings = <<>>

C17_ValueWaitAlwaysResolves ==
  /\ [][wpc = "props" => wpc' \in {"props", "resolved"}]_vars
  /\ [][wpc = "resolved" => wpc' = "resolved"]_vars
  /\ [](wpc \in {"props", "resolved"} => (ready /\ werr = ""))
  /\ [](wpc = "props" => clock < VALUE_TIMEOUT)
  /\ [](wpc = "resolved" => clock <= VALUE_TIMEOUT)
  /\ [][(polls' # polls /\ ready /\ proxy # "intercept" /\ ~enableAdb)
          => wpc' = "resolved"]_vars
  /\ [][(/\ wpc = "props"
         /\ clock' # clock
         /\ proxy = "intercept" => networkInspectorUrl
         /\ enableAdb => adbConnection)
          => wpc' = "resolved"]_vars
  /\ (wpc = "props") ~> (wpc = "resolved")

C17_Witness ==
  /\ wpc = "resolved"
  /\ clock = VALUE_TIMEOUT
  /\ proxy = "intercept"
  /\ ~networkInspectorUrl
  /\ enableAdb
  /\ adbConnection

----------------------------------------------------------------------------
(* Properties of operations on a disconnected channel *)

\* C16: an operation that was awaiting its response when the channel
\* disconnected fails with an error of its own for the disconnect, not
\* with a timeout error.
C16_DisconnectIsNotATimeout ==
  (disconnected /\ pc = "rejected" /\ result.by # 0)
    => result.err \notin {"ActionTimeoutError", "TimeoutError"}

----------------------------------------------------------------------------
(* Properties of waitForAnimations and playActions *)

LastToggle == animSent[Len(animSent)]

\* C18: whenever a waitForAnimations call is in flight the last toggle sent
\* is enablePixelChangeDetection; disablePixelChangeDetection is sent only
\* by a step that empties the set of calls in flight, and by every such
\* step.
C18_DetectionFollowsWaiters ==
  /\ [](Waiting(anims) # {} => (animSent # <<>> /\ LastToggle = ENABLE))
  /\ [][(animSent' # animSent /\ animSent'[Len(animSent')] = DISABLE)
          => (Waiting(anims) # {} /\ Waiting(anims') = {})]_vars
  /\ [][(Waiting(anims) # {} /\ Waiting(anims') = {})
          => animSent' = Append(animSent, DISABLE)]_vars

C18_Witness ==
  /\ Waiting(anims) = Callers
  /\ animSent = <<ENABLE, ENABLE, ENABLE>>

\* C19: a waitForAnimations call has resolved exactly when it has received
\* a run of consecutive pixelsChanged events, all at or below its
\* threshold, whose first and last timestamps are at least 1000 ms apart.
C19_ResolvesOnStableRun ==
  \A c \in Callers : (anims[c].state = "resolved") <=> anims[c].due

\* actions i and i + 1 of the batch are both keypresses
BothKeypresses(actions, i) ==
  /\ i < Len(actions)
  /\ actions[i].type = "keypress"
  /\ actions[i + 1].type = "keypress"

\* the step in which the attempt of action idx of a batch succeeds
BatchActionPlayed ==
  /\ op = "playActions"
  /\ pc = "pending"
  /\ (pc' \in {"settle", "resolved"} \/ idx' = idx + 1)

\* C20: playActions plays the actions in list order, one at a time; after
\* action i it goes straight on to action i + 1 when both are keypresses
\* and waits for animations to settle otherwise, whatever the list; the end
\* of a settle wait never fails the batch.
C20_SettleUnlessConsecutiveKeypresses ==
  /\ [][(op = "playActions" /\ pc \in InFlight /\ idx' # idx) => idx' = idx + 1]_vars
  /\ [][BatchActionPlayed
          => IF BothKeypresses(batch, idx)
               THEN idx' = idx + 1 /\ pc' \in {"pending", "rejected"}
               ELSE idx' = idx /\ pc' = "settle"]_vars
  /\ [][(pc = "settle" /\ pc' = "rejected") => (idx' = idx + 1 /\ result'.by = 0)]_vars

----------------------------------------------------------------------------
(* Properties of the gesture builder *)

\* every pause of the gesture is non-negative
NonNegativeWaits ==
  \A k \in 1..Len(gesture.moves) : gesture.moves[k].wait >= 0

\* the gesture has at least one segment and no pause
WithoutWaits ==
  /\ SegmentCount(gesture) >= 1
  /\ \A k \in 1..Len(gesture.moves) : gesture.moves[k].wait = 0

\* C28: when build() succeeds on a gesture whose pauses are all
\* non-negative, the t values of the moves it returns never decrease along
\* the list and the first move has t = 0.
C28_TimesNonDecreasing ==
  (built.status = "ok" /\ NonNegativeWaits)
    => /\ \A k \in 1..(Len(built.moves) - 1) : built.moves[k].t <= built.moves[k + 1].t
       /\ built.moves # <<>> => built.moves[1].t = 0

C28_Witness ==
  /\ built.status = "ok"
  /\ SegmentCount(gesture) = 2
  /\ gesture.moves[1].wait = 0
  /\ gesture.moves[2].wait = 20
  /\ gesture.moves[3].wait = 40
  /\ Len(built.moves) >= 5

\* C29: when build() succeeds on a gesture without pauses, the t of the
\* last move it returns is the duration of the gesture (500 ms for the
\* default duration with steps of 16 ms).
C29_EndsAtDuration ==
  (built.status = "ok" /\ WithoutWaits /\ built.moves # <<>>)
    => built.moves[Len(built.moves)].t = BuildDuration(gesture)

\* C30: build() on a gesture with at least one segment throws exactly when
\* the duration is less than stepDuration x segmentCount, and the error
\* then names segmentCount x stepDuration as the minimum duration.
C30_ThrowsBelowMinimumDuration ==
  (SegmentCount(gesture) >= 1 /\ built.status # "none" /\ built.err # "OperationalError")
    => /\ (built.status = "thrown" /\ built.err = "Error")
            <=> BuildDuration(gesture) < gesture.stepDuration * SegmentCount(gesture)
       /\ (built.status = "thrown" /\ built.err = "Error")
            => built.minimum = SegmentCount(gesture) * gesture.stepDuration

----------------------------------------------------------------------------
(* Properties of the coordinate mappers *)

\* screen.devicePixelRatio, 1 when absent
Ratio(scr) == IF scr.devicePixelRatio = 0 THEN 1 ELSE scr.devicePixelRatio

\* the fraction f of thousandths is the number v of thousandths, up to 1e-9
Approx(f, v) ==
  /\ (f.num - v * f.den) * 1000000 <= f.den
  /\ (v * f.den - f.num) * 1000000 <= f.den

\* the pixel the claim gives for the share v of an axis of length bound
ClaimedPixel(plat, scr, v, bound) ==
  IF plat = "android" THEN v * (bound * Ratio(scr) - 1) ELSE v * (bound - 1)

ClaimedPoint(plat, scr, p) ==
  /\ p.x.v = ClaimedPixel(plat, scr, parsePositionValue(p.x).v, scr.width)
  /\ p.y.v = ClaimedPixel(plat, scr, parsePositionValue(p.y).v, scr.height)

\* C26: a position within [0, 1] mapped to pixels by the outbound mapper
\* and back by the inbound mapper is the position it started from, up to
\* floating-point tolerance, on every screen and both platforms.
C26_PositionRoundTrip ==
  mapOut.stage = "back"
    => /\ Approx(mapOut.position.x, mapIn.position.x.v)
       /\ Approx(mapOut.position.y, mapIn.position.y.v)
       /\ \A k \in 1..Len(mapOut.back) :
            /\ Approx(mapOut.back[k].x, mapIn.moves[k].x.v)
            /\ Approx(mapOut.back[k].y, mapIn.moves[k].y.v)

\* C27: the outbound mapper maps a position p, and every move of a swipe,
\* per axis to p x (bound x r - 1) on Android, r being the
\* devicePixelRatio or 1 when absent, and to p x (bound - 1) on iOS; with
\* r = 1 the two agree.
C27_PixelOfPosition ==
  (mapOut.stage = "out" /\ mapOut.ok)
    => /\ mapOut.coordinates.x.v
            = ClaimedPixel(platform, screen, mapIn.position.x.v, screen.width)
       /\ mapOut.coordinates.y.v
            = ClaimedPixel(platform, screen, mapIn.position.y.v, screen.height)
       /\ Len(mapOut.moves) = Len(mapIn.moves)
       /\ \A k \in 1..Len(mapOut.moves) :
            /\ mapOut.moves[k].x.v
                 = ClaimedPixel(platform, screen, mapIn.moves[k].x.v, screen.width)
            /\ mapOut.moves[k].y.v
                 = ClaimedPixel(platform, screen, mapIn.moves[k].y.v, screen.height)
            /\ mapOut.moves[k].t = mapIn.moves[k].t
       /\ Ratio(screen) = 1
            => mapOut.coordinates.x.v
                 = ClaimedPixel("ios", screen, mapIn.position.x.v, screen.width)

C27_Witness ==
  /\ mapOut.stage = "out"
  /\ platform = "android"
  /\ screen.devicePixelRatio = 3
  /\ mapIn.position.x = Num(1000)
  /\ mapOut.coordinates.x = Num(1079000)
  /\ Len(mapOut.moves) = 2
  /\ mapOut.moves[2].y = Num(1919000)

\* C25: When no playAction attempt and no waitForEvent call is pending, the
\* session holds no listener installed by either and the hard timer is
\* cleared; while an attempt is pending the only listeners are those of that
\* attempt, and while waitForEvent is pending the only listener is its own.
\* This holds after any number of calls, retries and timeouts.
C25_NoListenerLeak ==
  /\ pc \notin {"pending", "awaiting"} => (listeners = {} /\ ~timer.armed)
  /\ pc = "pending" =>
       listeners \subseteq {[event |-> e, id |-> CurrentAttempt.id] : e \in PlaybackEvents}
  /\ pc = "awaiting" => (Cardinality(listeners) = 1 /\ ~timer.armed)

\* a second call, of waitForEvent, has timed out after a first call that
\* made an attempt of its own, and nothing is left installed
C25_Witness ==
  /\ op = "waitForEvent"
  /\ pc = "rejected"
  /\ result.err = "TimeoutError"
  /\ calls = 2
  /\ nextId > 2
  /\ listeners = {}

----------------------------------------------------------------------------
(* Properties of the client *)

\* session and sessionError events the client has emitted for instance i
Outcomes(i) == instances[i].sessions + instances[i].errors

\* C21: For every newSession event received while the client is ready the
\* client eventually emits exactly one of session and sessionError for the
\* session it created: never both, and never neither, whether the session
\* becomes ready, disconnects, reports an error, the client reports too
\* many requests or the 180 s of the readiness wait run out.
C21_OneOutcomePerNewSession ==
  /\ [](\A i \in Instances : Outcomes(i) <= 1)
  /\ \A i \in 1..MaxSessions :
       (Len(instances) >= i) ~> (Len(instances) >= i /\ Outcomes(i) = 1)

\* C22: At most one Session instance has its channel handler installed, so
\* no event of the device channel is handled and re-emitted by two
\* instances.
C22_OneActiveSession ==
  /\ Cardinality({i \in Instances : instances[i].attached}) <= 1
  /\ Cardinality(handledBy) <= 1

\* C23: queueEnd is emitted exactly by a newSession event that arrives while
\* a queue position is recorded, and that event leaves no position
\* recorded; so there are never more queueEnd events than queue-position
\* events or than sessions granted.
C23_QueueEndOnGrant ==
  /\ [][/\ tally'.queueEnd = tally.queueEnd
             + (IF tally'.newSession # tally.newSession /\ cQueue # 0 THEN 1 ELSE 0)
        /\ tally'.newSession # tally.newSession => cQueue' = 0]_vars
  /\ [](tally.queueEnd <= tally.queue /\ tally.queueEnd <= tally.newSession)

\* a queued session was granted, and then a second one that was not queued
C23_Witness ==
  /\ tally.queue >= 1
  /\ tally.queueEnd = 1
  /\ tally.newSession = 2
  /\ cQueue = 0

IsPrefixOf(s, t) == Len(s) <= Len(t) /\ SubSeq(t, 1, Len(s)) = s

\* C24: startSession sends endSession (only if there was a session), then
\* setConfig, then installs its listeners, then sends requestSession, in
\* that order; it rejects with 'Failed to start session...' before sending
\* anything if the client is not ready in time; while the request is out
\* and no outcome was heard both listeners are installed, and once session
\* or sessionError was heard neither is.
C24_StartSessionOrder ==
  /\ IF start.hadSession
       THEN IsPrefixOf(start.trace, <<"endSession", "setConfig", "listen", "requestSession">>)
       ELSE IsPrefixOf(start.trace, <<"setConfig", "listen", "requestSession">>)
  /\ start.pc = "waitUntilReady" => start.trace = <<>>
  /\ start.err = "Failed to start session. Timed out waiting for client to be ready"
       => start.trace = <<>>
  /\ (start.pc = "requested" /\ ~start.granted)
       => startListeners = {"session", "sessionError"}
  /\ (start.granted \/ start.err = "sessionError") => startListeners = {}

\* startSession with a session in place has resolved with the new session
C24_Witness ==
  /\ start.pc = "resolved"
  /\ start.hadSession
  /\ start.trace = <<"endSession", "setConfig", "listen", "requestSession">>
  /\ startListeners = {}

----------------------------------------------------------------------------
(* Properties of the gesture builder, continued *)

\* the coordinate c of a move, a fraction of a percentage, lies in [0, 1]
InUnit(c) == ~c.nan /\ c.den > 0 /\ 0 <= c.num /\ c.num <= 100 * c.den

\* C33: every move build() returns has x and y within [0, 1], whether the
\* waypoints were given with to() or with up(), down(), left() or right().
C33_MovesWithinUnitSquare ==
  built.status = "ok"
    => \A k \in 1..Len(built.moves) : InUnit(built.moves[k].x) /\ InUnit(built.moves[k].y)

\* the pauses of the waypoints before waypoint k, added up
RECURSIVE WaitBefore(_)
WaitBefore(k) == IF k <= 1 THEN 0 ELSE WaitBefore(k - 1) + gesture.moves[k - 1].wait

\* the waypoints before waypoint k that have a pause
PausedBefore(k) == Cardinality({j \in 1..(k - 1) : gesture.moves[j].wait # 0})

\* where waypoint k is in the list build() returns
WaypointIndex(k) == (k - 1) * StepsPerSegment(gesture) + PausedBefore(k) + 1

\* the move m is at the waypoint w
AtWaypoint(m, w) ==
  /\ m.x.nan = w.x.nan
  /\ m.y.nan = w.y.nan
  /\ ~w.x.nan => m.x.num = w.x.v * m.x.den
  /\ ~w.y.nan => m.y.num = w.y.v * m.y.den

\* what C34 says of the list build() has returned (in exact arithmetic)
WaypointsAndPauses ==
  LET n == SegmentCount(gesture)
      sps == StepsPerSegment(gesture)
      sd == gesture.stepDuration
  IN  /\ Len(built.moves) = n * sps + 1 + PausedBefore(n + 2)
      /\ \A k \in 1..(n + 1) :
           /\ AtWaypoint(built.moves[WaypointIndex(k)], gesture.moves[k])
           /\ built.moves[WaypointIndex(k)].t = (k - 1) * sps * sd + WaitBefore(k)
           /\ gesture.moves[k].wait # 0 =>
                /\ AtWaypoint(built.moves[WaypointIndex(k) + 1], gesture.moves[k])
                /\ built.moves[WaypointIndex(k) + 1].t
                     = built.moves[WaypointIndex(k)].t + gesture.moves[k].wait
      /\ \A k \in 1..n : \A step \in 1..(sps - 1) :
           built.moves[WaypointIndex(k + 1) - sps + step].t
             = ((k - 1) * sps + step) * sd + WaitBefore(k + 1)
      /\ gesture.moves[n + 1].wait = 0 =>
           AtWaypoint(built.moves[Len(built.moves)], gesture.moves[n + 1])

\* a call of wait() adds its duration to the pause the last waypoint has
WaitAddsUp ==
  (gesture.moves # <<>> /\ Len(gesture'.moves) = Len(gesture.moves) /\ gesture' # gesture)
    => \E d \in WaitInputs :
         gesture' = [gesture EXCEPT !.moves[Len(gesture.moves)].wait = @ + d]

----------------------------------------------------------------------------
(* Properties of waitForAnimations, continued *)

\* C35: the TimeoutError of every call of waitForAnimations that timed out
\* names the configured imageThreshold and the lowest percentage received
C35_TimeoutReportsThresholdAndLowest ==
  \A c \in Callers :
    anims[c].state = "rejected" =>
      /\ TimeoutMessage(anims[c]).detail
      /\ TimeoutMessage(anims[c]).imageThreshold = anims[c].threshold
      /\ TimeoutMessage(anims[c]).lowest = anims[c].lowest

----------------------------------------------------------------------------
(* Properties of the client, continued *)

\* session a was ended by startSession, a newer session is this.session,
\* and a hears its disconnect in this step
SupersededDisconnects(a) ==
  /\ cSession # 0
  /\ a < cSession
  /\ instances[a].isEndingManually
  /\ instances[a].attached
  /\ ~instances'[a].attached

\* C37: when the disconnect of a session that startSession has ended is
\* delivered after a newer session was created, the newer session stays
\* this.session and is not disconnected.
C37_SupersededDisconnectSparesNewer ==
  [][\A a \in Instances :
       SupersededDisconnects(a)
         => /\ cSession' = cSession
            /\ instances'[cSession].attached
            /\ instances'[cSession].isConnected
            /\ instances'[cSession].outcome \in {instances[cSession].outcome, "resolved"}]_vars

\* C38: the client is ready only when the init() started last has finished,
\* and it creates a session for newSession only then.
C38_ReadyOnlyAfterLatestInit ==
  /\ [](cReady => ~tally.initLatest)
  /\ [][Len(instances') > Len(instances) => ~tally.initLatest]_vars

\* startSession has returned or thrown
StartSettled == start.pc \in {"resolved", "rejected"}

\* C40: a startSession call whose request the window has met with
\* newSession eventually resolves or rejects.
C40_StartSessionSettles ==
  (start.pc = "requested" /\ start.offered) ~> StartSettled

----------------------------------------------------------------------------
(* Properties of playAction, continued *)

\* the step is the retry catch block calling playAction again
Retries ==
  /\ pc = "pending"
  /\ pc' = "pending"
  /\ attempts # <<>>
  /\ Len(attempts') = Len(attempts) + 1

\* C39: every playAction call that is awaiting a response eventually
\* resolves or rejects, whatever the channel delivers; each retry is given a
\* strictly smaller timeout than the attempt before it and no attempt
\* outlasts its hard timer.
C39_PlayActionSettles ==
  /\ (op = "playAction" /\ pc = "pending") ~> (pc \in {"resolved", "rejected"})
  /\ [][(op = "playAction" /\ Retries)
          => attempts'[Len(attempts')].timeout < CurrentAttempt.timeout]_vars
  /\ [](pc = "pending" => (timer.armed /\ waited <= timer.ms))

\* a call of three attempts whose last attempt, on a disconnected channel,
\* was ended by the hard timer
C39_Witness ==
  /\ op = "playAction"
  /\ pc = "rejected"
  /\ result.err = "ActionTimeoutError"
  /\ Len(attempts) = 3
  /\ disconnected

----------------------------------------------------------------------------
(* Properties of the events a session re-emits *)

HandlerState == <<ready, adbConnection, networkInspectorUrl, countdownWarning, screen>>

\* the public name of a channel event
PublicName(type) ==
  CASE type = "countdownWarning" -> "inactivityWarning"
    [] type = "userError" -> "error"
    [] type = "recordedAction" -> "action"
    [] type = "debug" -> "log"
    [] type = "userInteractionReceived" -> "interaction"
    [] OTHER -> type

\* the session has applied the update that goes with an event of this type
UpdateApplied(type) ==
  /\ type = "ready" => ready'
  /\ type = "adbOverTcp" => adbConnection'
  /\ type = "countdownWarning" => countdownWarning'
  /\ type = "timeoutReset" => ~countdownWarning'
  /\ type \notin {"ready", "adbOverTcp", "networkInspectorUrl", "countdownWarning",
                  "timeoutReset", "deviceInfo"} => HandlerState' = HandlerState

\* the session emitted the event once under name and once as '*', and the
\* listeners of both found the session updated
EmittedOnceAs(name) ==
  /\ Len(routed') = 2
  /\ routed'[1].event = name
  /\ routed'[2].event = "*"
  /\ routed'[1].type = name
  /\ routed'[2].type = name
  /\ routed'[1].seen = HandlerState'
  /\ routed'[2].seen = HandlerState'
  /\ emitted' = emitted + 1

\* C36: for every event the channel delivers before the disconnect the
\* session applies its state update and then emits one event under the
\* public name of the event (the original name if it has no other) and one
\* '*' event; for deleteEvent it emits nothing.
C36_EventsRoutedOnce ==
  [][(attached /\ ~disconnected' /\ delivered' = delivered + 1)
       => /\ UpdateApplied(lastEvent'.type)
          /\ IF lastEvent'.type = "deleteEvent"
               THEN routed' = <<>> /\ emitted' = emitted
               ELSE EmittedOnceAs(PublicName(lastEvent'.type))]_vars

\* a countdownWarning was re-emitted as inactivityWarning after a userError
\* and a ready event
C36_Witness ==
  /\ ~disconnected
  /\ ready
  /\ countdownWarning
  /\ emitted = 3
  /\ routed # <<>>
  /\ routed[1].event = "inactivityWarning"
  /\ routed[1].seen = HandlerState

----------------------------------------------------------------------------
(* Properties of the outbound mapper, continued *)

\* how many of position, coordinates and element the action specifies
TargetingModes(action) ==
  (IF action.position.present THEN 1 ELSE 0)
    + (IF action.coordinates.present THEN 1 ELSE 0)
    + (IF action.element # "none" THEN 1 ELSE 0)

\* C32: the outbound mapper rejects a tap or swipe that specifies more than
\* one of position, coordinates and element, or none of them, and no action
\* it has mapped carries both an element and the coordinates of a position.
C32_ExactlyOneTargetingMode ==
  mapOut.stage = "target"
    => /\ TargetingModes(mapIn) # 1 => ~mapOut.ok
       /\ mapOut.ok => ~(mapOut.element /\ mapIn.position.present
                           /\ mapOut.coordinates.present)

----------------------------------------------------------------------------
(* Properties of the error messages *)

\* the number of '// index' headings in a message
Headings(message) ==
  Cardinality({k \in 1..(Len(message) - 2) :
                 message[k] = "/" /\ message[k + 1] = "/" /\ message[k + 2] = " "})

EndsWith(message, suffix) ==
  /\ Len(suffix) <= Len(message)
  /\ SubSeq(message, Len(message) - Len(suffix) + 1, Len(message)) = suffix

\* the text '...and count more'
AndMoreText(count) ==
  <<".", ".", ".", "a", "n", "d", " ">> \o NumberString(count) \o <<" ", "m", "o", "r", "e">>

MatchedCount == Len(lastEvent.matchedElements)

\* C31: the message of an ActionAmbiguousElementError for n matched elements
\* lists min(n, 5) of them and ends with '...and (n - 5) more' exactly when
\* n is greater than 5.
C31_ListsFiveAndCountsTheRest ==
  result.status = "rejected"
    => /\ Headings(result.message) = (IF MatchedCount < 5 THEN MatchedCount ELSE 5)
       /\ MatchedCount > 5 => EndsWith(result.message, AndMoreText(MatchedCount - 5))
       /\ MatchedCount <= 5
            => \A count \in 0..MaxElements :
                 ~EndsWith(result.message, AndMoreText(count))

\* seven matched elements: five are listed and the message ends with
\* '...and 2 more'
C31_Witness ==
  /\ result.status = "rejected"
  /\ MatchedCount = 7
  /\ Headings(result.message) = 5
  /\ EndsWith(result.message, <<".", ".", ".", "a", "n", "d", " ", "2", " ", "m", "o", "r", "e">>)

====
